---- MODULE Spec2Model ----
(***************************************************************************)
(* NazareAI browser: the command loop (run_browser), execute_command, the  *)
(* parsing of the LLM reply into an action plan (interpret_command) and    *)
(* the plan executor (_execute_action_plan, _handle_navigation).           *)
(*                                                                         *)
(* Strings are sequences of tokens (<<"https://", "a.com">> is the text    *)
(* "https://a.com", <<>> is ""), so that startswith and concatenation are  *)
(* computed, not assumed.  A Python dict is a function whose DOMAIN is the *)
(* set of keys present.  Values the parser type-checks with isinstance     *)
(* carry their JSON type: [ty |-> "str" | "num" | "list" | "dict", v].     *)
(***************************************************************************)
EXTENDS Integers, Sequences, FiniteSets, TLC

\* Longest list of actions in an LLM reply / in a plan handed to the executor.
MaxActions == 2
\* Number of commands the user enters before leaving the loop.
MaxCommands == 2
\* Latest reading of the clock, in health-check intervals.
MaxTime == 1
\* Most _monitor_health tasks alive or ended at once (one more per recovery).
MaxMonitors == 2
\* Number of calls made to the page-level functions when they run on their own.
MaxCalls == 2

VARIABLES
    pc,                       \* position of the foreground task
    ncmd,                     \* commands entered so far
    page_state,               \* what capture_dom_state returned
    response,                 \* the LLM's raw reply to the current command
    action_plan,              \* the plan being executed
    i,                        \* enumerate index of the current action (1-based)
    initial_navigation_done,  \* local flag of _execute_action_plan
    element,                  \* what find_element returned for the current action
    current_url,              \* Browser.current_url
    exc,                      \* message of the exception being handled
    result,                   \* value returned by the last execute_command
    outcome,                  \* how the last execute_command ended
    log,                      \* browser operations of the current command, in order
    is_healthy,               \* Browser._is_healthy
    last_health_check,        \* Browser._last_health_check, in check intervals
    monitors,                 \* the _monitor_health tasks: position and probe attempt
    element_cache,            \* DOMManager._element_cache: URL -> description -> selector
    cookie_files,             \* cache/cookies/<domain>.json: domain -> timestamp and cookies
    cache_files,              \* .cache/llm/<key>.json: prompt -> timestamp and response
    now,                      \* datetime.now(), in the unit of the TTL at hand
    context_cookies           \* the cookies held by the BrowserContext

vars == <<pc, ncmd, page_state, response, action_plan, i, initial_navigation_done,
          element, current_url, exc, result, outcome, log,
          is_healthy, last_health_check, monitors, element_cache,
          cookie_files, cache_files, now, context_cookies>>

\* the files, the clock and the cookie jar.  They are followed where the cookie
\* store and the response cache run on their own; elsewhere load_cookies and
\* save_cookies are operations of the log and an LLM reply is an input.
storage == <<cookie_files, cache_files, now, context_cookies>>

\* SessionHealth and the tasks that maintain it
health == <<is_healthy, last_health_check, monitors>>

-----------------------------------------------------------------------------
(* Strings and JSON values *)

JStr(s) == [ty |-> "str", v |-> s]
JNum == [ty |-> "num", v |-> <<>>]
JList(l) == [ty |-> "list", v |-> l]
JDict(d) == [ty |-> "dict", v |-> d]

isinstance(x, t) == x.ty = t

\* dict.get(k, default)
Get(d, k, default) == IF k \in DOMAIN d THEN d[k] ELSE default

\* if k not in d: d[k] = default
SetDefault(d, k, default) == IF k \in DOMAIN d THEN d ELSE d @@ (k :> default)

\* s.startswith(("http://", "https://"))
startswith_scheme(s) == Len(s) >= 1 /\ s[1] \in {"http://", "https://"}

\* normalize_url with the scheme put in front without the startswith test
normalize_url_Always(url) == <<"https://">> \o url

\* if not url.startswith(("http://", "https://")): url = f"https://{url}"
normalize_url(url) == IF ~startswith_scheme(url) THEN <<"https://">> \o url ELSE url

\* str.lower() on the action types that occur
lower(t) ==
    CASE t = "Navigate" -> "navigate"
      [] t = "Click" -> "click"
      [] OTHER -> t

EmptyDict == [k \in {} |-> <<>>]

-----------------------------------------------------------------------------
(* The LLM reply and its parsing: LLMController.interpret_command *)

\* The reply is prose around at most one JSON document.  An object with
\* members is written "{" members "}", the empty object "{" "}"; a "broken"
\* document is brace-delimited text that is no JSON; "prose" has no braces.
DocText(doc) ==
    CASE doc.kind = "object" ->
            IF DOMAIN doc.v = {} THEN <<"{", "}">> ELSE <<"{", "members", "}">>
      [] doc.kind = "broken" -> <<"{", "garbage", "}">>
      [] OTHER -> <<"text">>

ResponseText(r) == r.pre \o DocText(r.doc) \o r.post

\* find that reports the start of the text whenever the character occurs
find_Start(s, ch) == IF \E k \in 1..Len(s) : s[k] = ch THEN 0 ELSE -1

\* str.find / str.rfind: 0-based index of the first / last occurrence, or -1
find(s, ch) ==
    IF \E k \in 1..Len(s) : s[k] = ch
    THEN (CHOOSE k \in 1..Len(s) : s[k] = ch /\ \A j \in 1..(k - 1) : s[j] # ch) - 1
    ELSE -1

rfind(s, ch) ==
    IF \E k \in 1..Len(s) : s[k] = ch
    THEN (CHOOSE k \in 1..Len(s) : s[k] = ch /\ \A j \in (k + 1)..Len(s) : s[j] # ch) - 1
    ELSE -1

\* response[start_idx:end_idx]
Slice(s, start_idx, end_idx) == SubSeq(s, start_idx + 1, end_idx)

Ok(x) == [ok |-> TRUE, v |-> x, err |-> <<>>]
NoPlan == [none |-> TRUE]

Raise(msg) == [ok |-> FALSE, v |-> NoPlan, err |-> msg]

\* json.loads(json_str): the text parses only when it is exactly one object
json_loads(json_str, doc) ==
    IF doc.kind = "object" /\ json_str = DocText(doc) THEN Ok(JDict(doc.v))
    ELSE IF json_str = <<"{", "}">> THEN Ok(JDict(EmptyDict))
    ELSE Raise(<<"Failed to parse JSON">>)

valid_types == {"navigate", "click", "type", "extract"}

\* fill_defaults without the press_enter default
fill_defaults_NoEnter(action) ==
    SetDefault(SetDefault(SetDefault(action,
        "value", <<>>), "selector", <<>>), "wait_for", <<>>)

\* the four "if k not in action" defaults
fill_defaults(action) ==
    SetDefault(SetDefault(SetDefault(SetDefault(action,
        "value", <<>>), "selector", <<>>), "wait_for", <<>>), "press_enter", FALSE)

\* validate_actions with an action of an invalid type left out of the plan
RECURSIVE validate_actions_Drop(_)
validate_actions_Drop(items) ==
    IF items = <<>> THEN Ok(<<>>)
    ELSE LET action == Head(items) IN
         IF ~isinstance(action, "dict") THEN Raise(<<"Invalid action format">>)
         ELSE LET rest == validate_actions_Drop(Tail(items)) IN
              IF ~rest.ok THEN rest
              ELSE IF "type" \notin DOMAIN action.v \/ action.v["type"] \notin valid_types
                   THEN rest
                   ELSE Ok(<<fill_defaults(action.v)>> \o rest.v)

\* for action in action_plan["actions"]: type checks, then default-fill
RECURSIVE validate_actions(_)
validate_actions(items) ==
    IF items = <<>> THEN Ok(<<>>)
    ELSE LET action == Head(items) IN
         IF ~isinstance(action, "dict") THEN Raise(<<"Invalid action format">>)
         ELSE IF "type" \notin DOMAIN action.v \/ action.v["type"] \notin valid_types
              THEN Raise(<<"Invalid action type: ", Get(action.v, "type", "None")>>)
         ELSE LET rest == validate_actions(Tail(items)) IN
              IF ~rest.ok THEN rest
              ELSE Ok(<<fill_defaults(action.v)>> \o rest.v)

\* the checks between json.loads and "return action_plan"
validate_plan(loaded) ==
    IF ~isinstance(loaded, "dict") THEN Raise(<<"Response is not a dictionary">>)
    ELSE LET plan == loaded.v IN
         IF "url" \notin DOMAIN plan \/ ~isinstance(plan["url"], "str")
         THEN Raise(<<"Missing or invalid 'url' field">>)
         ELSE IF "actions" \notin DOMAIN plan \/ ~isinstance(plan["actions"], "list")
         THEN Raise(<<"Missing or invalid 'actions' field">>)
         ELSE LET actions == validate_actions(plan["actions"].v) IN
              IF ~actions.ok THEN actions
              ELSE Ok([url |-> normalize_url(plan["url"].v),
                       actions |-> actions.v,
                       extraction |-> Get(plan, "extraction", EmptyDict)])

\* "except Exception as e: raise LLMResponseError(f'Failed to validate ...')"
Rewrap(prefix, r) == IF r.ok THEN r ELSE Raise(<<prefix>> \o r.err)

\* interpret_command from the reply on: the plan, or the error it raises
parse(r) ==
    LET text == ResponseText(r)
        start_idx == find(text, "{")
        end_idx == rfind(text, "}") + 1
    IN  IF start_idx >= 0 /\ end_idx > start_idx
        THEN LET loaded == json_loads(Slice(text, start_idx, end_idx), r.doc) IN
             Rewrap("Failed to process LLM response: ",
                    IF ~loaded.ok THEN loaded
                    ELSE Rewrap("Failed to validate action plan: ", validate_plan(loaded.v)))
        ELSE Rewrap("Failed to process LLM response: ",
                    Raise(<<"No valid JSON found in response">>))

\* the decorator: every exception leaves interpret_command as an LLMError
with_llm_error_handling(r) == Rewrap("Unexpected error in LLM operation: ", r)

interpret_command(r) == with_llm_error_handling(parse(r))

-----------------------------------------------------------------------------
(* Replies the LLM may give *)

RawUrls == {<<"https://", "a.com">>, <<"b.com">>}

RawActions ==
    { JDict([type |-> "navigate", value |-> <<"https://", "a.com">>]),
      JDict([type |-> "navigate", value |-> <<"b.com">>]),
      JDict([type |-> "click", selector |-> <<"#btn">>]),
      JDict([type |-> "type", selector |-> <<"#q">>, value |-> <<"txt">>,
             press_enter |-> TRUE]),
      JDict([type |-> "wait", wait_for |-> <<"#w">>]),
      JDict([type |-> "extract"]),
      JDict([type |-> "hover", selector |-> <<"#btn">>]) }

ListsOver(S, n) == UNION { [1..k -> S] : k \in 0..n }

RawExtractions == { EmptyDict, [extraction |-> [title |-> <<"h1">>]] }

Object(d) == [kind |-> "object", v |-> d]

\* well-typed objects: url and actions present, extraction optional
TypedDocs ==
    { Object([url |-> JStr(u), actions |-> JList(l)] @@ e) :
        u \in RawUrls, l \in ListsOver(RawActions, MaxActions), e \in RawExtractions }

GoodUrl == JStr(<<"https://", "a.com">>)
AClick == JDict([type |-> "click", selector |-> <<"#btn">>])

\* replies that miss or mistype a field, or are no JSON object at all
OddDocs ==
    { Object(EmptyDict),
      Object([actions |-> JList(<<AClick>>)]),
      Object([url |-> JNum, actions |-> JList(<<AClick>>)]),
      Object([url |-> GoodUrl]),
      Object([url |-> GoodUrl, actions |-> JStr(<<"click">>)]),
      Object([url |-> GoodUrl, actions |-> JList(<<JDict([selector |-> <<"#btn">>])>>)]),
      Object([url |-> GoodUrl, actions |-> JList(<<JDict([type |-> "Click",
                                                          selector |-> <<"#btn">>])>>)]),
      Object([url |-> GoodUrl, actions |-> JList(<<JDict([type |-> "click"])>>)]),
      Object([url |-> GoodUrl, actions |-> JList(<<AClick, JStr(<<"click">>)>>)]),
      Object([url |-> GoodUrl,
              actions |-> JList(<<JDict([type |-> "type", selector |-> <<"#q">>,
                                         value |-> <<"txt">>])>>)]),
      Object([url |-> GoodUrl, actions |-> JList(<<AClick>>), extraction |-> EmptyDict]),
      Object([url |-> JStr(<<>>), actions |-> JList(<<>>)]),
      Object([url |-> GoodUrl,
              actions |-> JList(<<JDict([type |-> "navigate", selector |-> <<"#l">>,
                                         wait_for |-> <<"#w">>, press_enter |-> TRUE])>>)]),
      [kind |-> "broken", v |-> EmptyDict],
      [kind |-> "prose", v |-> EmptyDict] }

Bare(doc) == [pre |-> <<>>, doc |-> doc, post |-> <<>>]

\* a good plan and a plan without actions inside prose, with and without
\* stray braces
WrappedResponses ==
    { [pre |-> p, doc |-> doc, post |-> q] :
        doc \in { Object([url |-> GoodUrl, actions |-> JList(<<AClick>>)]),
                  Object([url |-> GoodUrl]) },
        p \in {<<"Sure:">>, <<"{">>, <<"}">>},
        q \in {<<>>, <<"done">>, <<"}">>, <<"{">>} }

Responses == { Bare(d) : d \in TypedDocs \cup OddDocs } \cup WrappedResponses

NoResponse == Bare([kind |-> "absent", v |-> EmptyDict])
NoValue == [ty |-> "none", v |-> <<>>]

-----------------------------------------------------------------------------
(* Browser._handle_navigation and the browser operations it performs *)

Ev(e, s, a) == [ev |-> e, step |-> s, arg |-> a]

NavOutcomes == {"ok", "goto_raises", "ready_raises"}

\* DOMManager.clear_cache(url): one URL's entries are dropped, or, when the
\* argument is empty or missing, all of them
clear_cache(cache, url) ==
    IF url # <<>>
    THEN [u \in DOMAIN cache \ {url} |-> cache[u]]
    ELSE EmptyDict

\* handle_navigation with a failed page.goto logged and passed over
handle_navigation_Swallow(cache, cur, url, step, how) ==
    LET clear == IF cur # url THEN <<Ev("clear_cache", step, cur)>> ELSE <<>>
        before == clear \o <<Ev("load_cookies", step, url), Ev("goto", step, url)>>
        cleared == IF cur # url THEN clear_cache(cache, cur) ELSE cache
    IN  CASE how = "goto_raises" ->
               [raised |-> FALSE, err |-> <<>>,
                events |-> before, current_url |-> url, element_cache |-> cleared]
          [] how = "ready_raises" ->
               [raised |-> TRUE, err |-> <<"DOM not ready">>,
                events |-> before \o <<Ev("loaded", step, url)>>, current_url |-> url,
                element_cache |-> cleared]
          [] OTHER ->
               [raised |-> FALSE, err |-> <<>>,
                events |-> before \o <<Ev("loaded", step, url), Ev("dom_ready", step, url),
                                       Ev("consent", step, url), Ev("save_cookies", step, url)>>,
                current_url |-> url, element_cache |-> cleared]

\* handle_navigation with the cookies saved before the consent dialogs are handled
handle_navigation_SaveEarly(cache, cur, url, step, how) ==
    LET clear == IF cur # url THEN <<Ev("clear_cache", step, cur)>> ELSE <<>>
        before == clear \o <<Ev("load_cookies", step, url), Ev("goto", step, url)>>
        cleared == IF cur # url THEN clear_cache(cache, cur) ELSE cache
    IN  CASE how = "goto_raises" ->
               [raised |-> TRUE, err |-> <<"page.goto failed">>,
                events |-> before, current_url |-> url, element_cache |-> cleared]
          [] how = "ready_raises" ->
               [raised |-> TRUE, err |-> <<"DOM not ready">>,
                events |-> before \o <<Ev("loaded", step, url)>>, current_url |-> url,
                element_cache |-> cleared]
          [] OTHER ->
               [raised |-> FALSE, err |-> <<>>,
                events |-> before \o <<Ev("loaded", step, url), Ev("dom_ready", step, url),
                                       Ev("save_cookies", step, url), Ev("consent", step, url)>>,
                current_url |-> url, element_cache |-> cleared]

\* _handle_navigation(url) called in step `step`; `how` is what the page does.
\* load_cookies, handle_consent_dialogs and save_cookies swallow their errors;
\* page.goto, wait_for_navigation and setup_page raise, and the handler re-raises.
handle_navigation(cache, cur, url, step, how) ==
    LET clear == IF cur # url THEN <<Ev("clear_cache", step, cur)>> ELSE <<>>
        before == clear \o <<Ev("load_cookies", step, url), Ev("goto", step, url)>>
        cleared == IF cur # url THEN clear_cache(cache, cur) ELSE cache
    IN  CASE how = "goto_raises" ->
               [raised |-> TRUE, err |-> <<"page.goto failed">>,
                events |-> before, current_url |-> url, element_cache |-> cleared]
          [] how = "ready_raises" ->
               [raised |-> TRUE, err |-> <<"DOM not ready">>,
                events |-> before \o <<Ev("loaded", step, url)>>, current_url |-> url,
                element_cache |-> cleared]
          [] OTHER ->
               [raised |-> FALSE, err |-> <<>>,
                events |-> before \o <<Ev("loaded", step, url), Ev("dom_ready", step, url),
                                       Ev("consent", step, url), Ev("save_cookies", step, url)>>,
                current_url |-> url, element_cache |-> cleared]

-----------------------------------------------------------------------------
(* Browser._execute_action_plan *)

CurAction == action_plan["actions"][i]
action_type == lower(Get(CurAction, "type", ""))
value == Get(CurAction, "value", <<>>)
selector == Get(CurAction, "selector", <<>>)
wait_for == Get(CurAction, "wait_for", <<>>)

Completed == Ev("completed", i, <<>>)

\* initial_navigation_done = False
\* if "url" in action_plan and not initial_navigation_done: ... _handle_navigation(url)
PlanUrl ==
    /\ pc = "plan_url"
    /\ i' = 0
    /\ IF "url" \in DOMAIN action_plan
       THEN \E how \in NavOutcomes :
              LET url == normalize_url(action_plan["url"])
                  nav == handle_navigation(element_cache, current_url, url, 0, how)
              IN  /\ log' = log \o <<Ev("apply_settings", 0, url)>> \o nav.events
                  /\ current_url' = nav.current_url
                  /\ element_cache' = nav.element_cache
                  /\ IF nav.raised
                     THEN /\ exc' = nav.err
                          /\ pc' = "plan_except"
                          /\ initial_navigation_done' = FALSE
                     ELSE /\ initial_navigation_done' = TRUE
                          /\ pc' = "for"
                          /\ UNCHANGED exc
       ELSE /\ pc' = "for"
            /\ initial_navigation_done' = FALSE
            /\ UNCHANGED <<log, current_url, exc, element_cache>>
    /\ UNCHANGED <<ncmd, page_state, response, action_plan, element, result, outcome>>
    /\ UNCHANGED health
    /\ UNCHANGED storage

\* ForNext with the loop stepping over every other action
ForNext_Skip ==
    /\ pc = "for"
    /\ IF "actions" \in DOMAIN action_plan /\ i < Len(action_plan["actions"])
       THEN /\ i' = IF i + 2 <= Len(action_plan["actions"]) THEN i + 2 ELSE i + 1
            /\ log' = Append(log, Ev("action", i', <<>>))
            /\ pc' = "action"
       ELSE /\ pc' = "extraction"
            /\ UNCHANGED <<i, log>>
    /\ element' = "unset"
    /\ UNCHANGED <<ncmd, page_state, response, action_plan, initial_navigation_done,
                   current_url, exc, result, outcome>>
    /\ UNCHANGED health
    /\ UNCHANGED storage
    /\ UNCHANGED element_cache

\* for i, action in enumerate(action_plan["actions"], 1)
ForNext ==
    /\ pc = "for"
    /\ IF "actions" \in DOMAIN action_plan /\ i < Len(action_plan["actions"])
       THEN /\ i' = i + 1
            /\ log' = Append(log, Ev("action", i + 1, <<>>))
            /\ pc' = "action"
       ELSE /\ pc' = "extraction"
            /\ UNCHANGED <<i, log>>
    /\ element' = "unset"
    /\ UNCHANGED <<ncmd, page_state, response, action_plan, initial_navigation_done,
                   current_url, exc, result, outcome>>
    /\ UNCHANGED health
    /\ UNCHANGED storage
    /\ UNCHANGED element_cache

\* ActionNavigate without the initial_navigation_done test
ActionNavigate_Always ==
    /\ pc = "action"
    /\ action_type = "navigate"
    /\ \E how \in NavOutcomes :
         LET url == normalize_url(value)
             nav == handle_navigation(element_cache, current_url, url, i, how)
         IN  /\ current_url' = nav.current_url
             /\ element_cache' = nav.element_cache
             /\ IF nav.raised
                THEN /\ log' = log \o nav.events
                     /\ exc' = nav.err
                     /\ pc' = "plan_except"
                     /\ UNCHANGED initial_navigation_done
                ELSE /\ log' = log \o nav.events \o <<Completed>>
                     /\ initial_navigation_done' = TRUE
                     /\ pc' = "for"
                     /\ UNCHANGED exc
    /\ UNCHANGED <<ncmd, page_state, response, action_plan, i, element, result, outcome>>
    /\ UNCHANGED health
    /\ UNCHANGED storage

\* the two navigate branches: navigate once, skip every later navigate
ActionNavigate ==
    /\ pc = "action"
    /\ action_type = "navigate"
    /\ \E how \in NavOutcomes :
         IF ~initial_navigation_done
         THEN LET url == normalize_url(value)
                  nav == handle_navigation(element_cache, current_url, url, i, how)
              IN  /\ current_url' = nav.current_url
                  /\ element_cache' = nav.element_cache
                  /\ IF nav.raised
                     THEN /\ log' = log \o nav.events
                          /\ exc' = nav.err
                          /\ pc' = "plan_except"
                          /\ UNCHANGED initial_navigation_done
                     ELSE /\ log' = log \o nav.events \o <<Completed>>
                          /\ initial_navigation_done' = TRUE
                          /\ pc' = "for"
                          /\ UNCHANGED exc
         ELSE /\ log' = Append(log, Ev("skip_navigation", i, value))
              /\ pc' = "for"
              /\ UNCHANGED <<current_url, exc, initial_navigation_done, element_cache>>
    /\ UNCHANGED <<ncmd, page_state, response, action_plan, i, element, result, outcome>>
    /\ UNCHANGED health
    /\ UNCHANGED storage

\* DOMManager.find_element: the event logged for a call that returned an element
\* ("found") or None ("none": not found, timed out, or any exception, all swallowed)
find_element(found) == IF found = "found" THEN "find_element_found" ELSE "find_element_none"

\* ActionFindElement with a resolved selector entered in the cache, under the
\* URL the page reports for itself
ActionFindElement_Record ==
    /\ pc = "action"
    /\ action_type \in {"click", "type"}
    /\ \E found \in {"found", "none"} :
         /\ element' = found
         /\ log' = Append(log, Ev(find_element(found), i, selector))
         /\ element_cache' =
              IF found = "found"
              THEN SetDefault(element_cache, current_url \o <<"/">>, selector)
              ELSE element_cache
    /\ pc' = "resolved"
    /\ UNCHANGED <<ncmd, page_state, response, action_plan, i, initial_navigation_done,
                   current_url, exc, result, outcome>>
    /\ UNCHANGED health
    /\ UNCHANGED storage

\* ActionFindElement with a selector that resolved earlier in the plan taken
\* as resolved again, the page not looked at
ActionFindElement_Cached ==
    /\ pc = "action"
    /\ action_type \in {"click", "type"}
    /\ IF \E q \in DOMAIN log : log[q].ev = "find_element_found" /\ log[q].arg = selector
       THEN /\ element' = "found"
            /\ log' = Append(log, Ev("cached_selector", i, selector))
       ELSE \E found \in {"found", "none"} :
              /\ element' = found
              /\ log' = Append(log, Ev(find_element(found), i, selector))
    /\ pc' = "resolved"
    /\ UNCHANGED <<ncmd, page_state, response, action_plan, i, initial_navigation_done,
                   current_url, exc, result, outcome>>
    /\ UNCHANGED health
    /\ UNCHANGED storage
    /\ UNCHANGED element_cache

\* element = await self.dom_manager.find_element(selector)
ActionFindElement ==
    /\ pc = "action"
    /\ action_type \in {"click", "type"}
    /\ \E found \in {"found", "none"} :
         /\ element' = found
         /\ log' = Append(log, Ev(find_element(found), i, selector))
    /\ pc' = "resolved"
    /\ UNCHANGED <<ncmd, page_state, response, action_plan, i, initial_navigation_done,
                   current_url, exc, result, outcome>>
    /\ UNCHANGED health
    /\ UNCHANGED storage
    /\ UNCHANGED element_cache

\* ActionClick with a missing element logged and the loop carrying on
ActionClick_Continue ==
    /\ pc = "resolved"
    /\ action_type = "click"
    /\ log' = IF element = "found"
              THEN log \o <<Ev("click", i, selector), Completed>>
              ELSE Append(log, Completed)
    /\ pc' = "for"
    /\ UNCHANGED <<ncmd, page_state, response, action_plan, i, initial_navigation_done,
                   element, current_url, exc, result, outcome>>
    /\ UNCHANGED health
    /\ UNCHANGED storage
    /\ UNCHANGED element_cache

\* the click branch after find_element
ActionClick ==
    /\ pc = "resolved"
    /\ action_type = "click"
    /\ IF element = "found"
       THEN \E ok \in BOOLEAN :
              IF ok
              THEN /\ log' = log \o <<Ev("click", i, selector), Completed>>
                   /\ pc' = "for"
                   /\ UNCHANGED <<exc, result>>
              ELSE /\ log' = Append(log, Ev("click", i, selector))
                   /\ exc' = <<"element.click failed">>
                   /\ pc' = "plan_except"
                   /\ UNCHANGED result
       ELSE /\ result' = JStr(<<"Could not find clickable element: ">> \o selector)
            /\ pc' = "plan_return"
            /\ UNCHANGED <<log, exc>>
    /\ UNCHANGED <<ncmd, page_state, response, action_plan, i, initial_navigation_done,
                   element, current_url, outcome>>
    /\ UNCHANGED health
    /\ UNCHANGED storage
    /\ UNCHANGED element_cache

\* ActionType with the text sent to the page before the element is tested
ActionType_TypeFirst ==
    /\ pc = "resolved"
    /\ action_type = "type"
    /\ IF element = "found"
       THEN /\ log' = log \o <<Ev("type", i, value), Completed>>
            /\ pc' = "for"
            /\ UNCHANGED result
       ELSE /\ log' = Append(log, Ev("type", i, value))
            /\ result' = JStr(<<"Could not find input element: ">> \o selector)
            /\ pc' = "plan_return"
    /\ UNCHANGED <<ncmd, page_state, response, action_plan, i, initial_navigation_done,
                   element, current_url, exc, outcome>>
    /\ UNCHANGED health
    /\ UNCHANGED storage
    /\ UNCHANGED element_cache

\* the type branch after find_element
ActionType ==
    /\ pc = "resolved"
    /\ action_type = "type"
    /\ IF element = "found"
       THEN \E how \in {"ok", "type_raises", "press_raises"} :
              LET typed == Ev("type", i, value)
                  enter == IF Get(CurAction, "press_enter", FALSE)
                           THEN <<Ev("press_enter", i, selector)>> ELSE <<>>
              IN  IF how = "type_raises"
                  THEN /\ log' = Append(log, typed)
                       /\ exc' = <<"element.type failed">>
                       /\ pc' = "plan_except"
                       /\ UNCHANGED result
                  ELSE IF how = "press_raises" /\ enter # <<>>
                  THEN /\ log' = log \o <<typed>> \o enter
                       /\ exc' = <<"element.press failed">>
                       /\ pc' = "plan_except"
                       /\ UNCHANGED result
                  ELSE /\ log' = log \o <<typed>> \o enter \o <<Completed>>
                       /\ pc' = "for"
                       /\ UNCHANGED <<exc, result>>
       ELSE /\ result' = JStr(<<"Could not find input element: ">> \o selector)
            /\ pc' = "plan_return"
            /\ UNCHANGED <<log, exc>>
    /\ UNCHANGED <<ncmd, page_state, response, action_plan, i, initial_navigation_done,
                   element, current_url, outcome>>
    /\ UNCHANGED health
    /\ UNCHANGED storage
    /\ UNCHANGED element_cache

\* ActionWait with a wait target that does not appear treated like a missing
\* click target
ActionWait_Strict ==
    /\ pc = "action"
    /\ action_type \notin {"navigate", "click", "type"}
    /\ \E found \in {"found", "none"} :
         IF action_type = "wait" /\ wait_for # <<>>
         THEN /\ element' = found
              /\ IF found = "found"
                 THEN /\ log' = log \o <<Ev(find_element(found), i, wait_for), Completed>>
                      /\ pc' = "for"
                      /\ UNCHANGED result
                 ELSE /\ log' = Append(log, Ev(find_element(found), i, wait_for))
                      /\ result' = JStr(<<"Could not find element: ">> \o wait_for)
                      /\ pc' = "plan_return"
         ELSE /\ log' = Append(log, Completed)
              /\ pc' = "for"
              /\ UNCHANGED <<element, result>>
    /\ UNCHANGED <<ncmd, page_state, response, action_plan, i, initial_navigation_done,
                   current_url, exc, outcome>>
    /\ UNCHANGED health
    /\ UNCHANGED storage
    /\ UNCHANGED element_cache

\* the end of the elif chain: the wait branch, and a type no branch matches
ActionWait ==
    /\ pc = "action"
    /\ action_type \notin {"navigate", "click", "type"}
    /\ \E found \in {"found", "none"} :
         IF action_type = "wait" /\ wait_for # <<>>
         THEN /\ element' = found
              /\ log' = log \o <<Ev(find_element(found), i, wait_for), Completed>>
         ELSE /\ log' = Append(log, Completed)
              /\ UNCHANGED element
    /\ pc' = "for"
    /\ UNCHANGED <<ncmd, page_state, response, action_plan, i, initial_navigation_done,
                   current_url, exc, result, outcome>>
    /\ UNCHANGED health
    /\ UNCHANGED storage
    /\ UNCHANGED element_cache

\* LLMController.extract_information: a dict, whatever happens
extract_information(extraction_plan, how) ==
    IF DOMAIN extraction_plan = {} THEN [result |-> <<"No extraction plan provided">>]
    ELSE IF how = "llm_error" THEN [error |-> <<"LLM API error">>]
    ELSE [data |-> <<"extracted">>]

\* if "extraction" in action_plan: ... return result / return "Command executed successfully"
Extraction ==
    /\ pc = "extraction"
    /\ IF "extraction" \in DOMAIN action_plan
       THEN \E how \in {"ok", "content_raises", "llm_error"} :
              IF how = "content_raises"
              THEN /\ log' = Append(log, Ev("page_content", i + 1, <<>>))
                   /\ exc' = <<"page.content failed">>
                   /\ pc' = "plan_except"
                   /\ UNCHANGED result
              ELSE /\ log' = log \o <<Ev("page_content", i + 1, <<>>),
                                     Ev("extract_information", i + 1, <<>>)>>
                   /\ result' = JDict(extract_information(action_plan["extraction"], how))
                   /\ pc' = "plan_return"
                   /\ UNCHANGED exc
       ELSE /\ result' = JStr(<<"Command executed successfully">>)
            /\ pc' = "plan_return"
            /\ UNCHANGED <<log, exc>>
    /\ UNCHANGED <<ncmd, page_state, response, action_plan, i, initial_navigation_done,
                   element, current_url, outcome>>
    /\ UNCHANGED health
    /\ UNCHANGED storage
    /\ UNCHANGED element_cache

\* except Exception as e: return f"Error executing action plan: {str(e)}"
PlanExcept ==
    /\ pc = "plan_except"
    /\ result' = JStr(<<"Error executing action plan: ">> \o exc)
    /\ exc' = <<>>
    /\ pc' = "plan_return"
    /\ UNCHANGED <<ncmd, page_state, response, action_plan, i, initial_navigation_done,
                   element, current_url, outcome, log>>
    /\ UNCHANGED health
    /\ UNCHANGED storage
    /\ UNCHANGED element_cache

-----------------------------------------------------------------------------
(* Browser.execute_command and the command loop of run_browser *)

\* Prompt with execute_command started as a task the loop does not wait for
Prompt_Detached ==
    /\ pc \in {"prompt", "for"}
    /\ ncmd < MaxCommands
    /\ ncmd' = ncmd + 1
    /\ pc' = "capture"
    /\ page_state' = ""
    /\ response' = NoResponse
    /\ action_plan' = NoPlan
    /\ i' = 0
    /\ initial_navigation_done' = FALSE
    /\ element' = "unset"
    /\ exc' = <<>>
    /\ result' = NoValue
    /\ outcome' = "running"
    /\ log' = <<>>
    /\ UNCHANGED current_url
    /\ UNCHANGED health
    /\ UNCHANGED storage
    /\ UNCHANGED element_cache

\* command = Prompt.ask(...); result = await browser.execute_command(command)
Prompt ==
    /\ pc = "prompt"
    /\ ncmd < MaxCommands
    /\ ncmd' = ncmd + 1
    /\ pc' = "capture"
    /\ page_state' = ""
    /\ response' = NoResponse
    /\ action_plan' = NoPlan
    /\ i' = 0
    /\ initial_navigation_done' = FALSE
    /\ element' = "unset"
    /\ exc' = <<>>
    /\ result' = NoValue
    /\ outcome' = "running"
    /\ log' = <<>>
    /\ UNCHANGED current_url
    /\ UNCHANGED health
    /\ UNCHANGED storage
    /\ UNCHANGED element_cache

\* if command.lower() in ("exit", "quit"): break
PromptExit ==
    /\ pc = "prompt"
    /\ pc' = "closed"
    /\ element_cache' = clear_cache(element_cache, <<>>)
    /\ UNCHANGED <<ncmd, page_state, response, action_plan, i, initial_navigation_done,
                   element, current_url, exc, result, outcome, log>>
    /\ UNCHANGED health
    /\ UNCHANGED storage

\* page_state = await self.dom_manager.capture_dom_state(): a string, also on failure
CaptureDomState ==
    /\ pc = "capture"
    /\ \E ok \in BOOLEAN :
         page_state' = IF ok THEN "Current URL" ELSE "Error: Could not capture DOM state"
    /\ pc' = "interpret"
    /\ UNCHANGED <<ncmd, response, action_plan, i, initial_navigation_done, element,
                   current_url, exc, result, outcome, log>>
    /\ UNCHANGED health
    /\ UNCHANGED storage
    /\ UNCHANGED element_cache

\* InterpretCommand with a rejected reply replaced by a plan that only opens
\* the page the reply names
InterpretCommand_Fallback ==
    /\ pc = "interpret"
    /\ \E r \in Responses \cup {NoResponse} :
         LET got == IF r = NoResponse
                    THEN Raise(<<"Failed to get valid response from LLM API after retries">>)
                    ELSE interpret_command(r)
         IN  /\ response' = r
             /\ action_plan' = IF got.ok THEN got.v
                               ELSE [url |-> <<"https://", "a.com">>, actions |-> <<>>]
             /\ pc' = "plan_url"
    /\ UNCHANGED <<ncmd, page_state, i, initial_navigation_done, element, current_url,
                   exc, result, outcome, log>>
    /\ UNCHANGED health
    /\ UNCHANGED storage
    /\ UNCHANGED element_cache

\* action_plan = await self.llm_controller.interpret_command(command, page_state),
\* the LLM answering with one of `replies`; no reply at all (NoResponse) is the
\* completion request failing
InterpretCommandFrom(replies) ==
    /\ pc = "interpret"
    /\ \E r \in replies \cup {NoResponse} :
         LET got == IF r = NoResponse
                    THEN Raise(<<"Failed to get valid response from LLM API after retries">>)
                    ELSE interpret_command(r)
         IN  /\ response' = r
             /\ IF got.ok
                THEN /\ action_plan' = got.v
                     /\ pc' = "plan_url"
                     /\ UNCHANGED exc
                ELSE /\ exc' = got.err
                     /\ pc' = "command_except"
                     /\ UNCHANGED action_plan
    /\ UNCHANGED <<ncmd, page_state, i, initial_navigation_done, element, current_url,
                   result, outcome, log>>
    /\ UNCHANGED health
    /\ UNCHANGED storage
    /\ UNCHANGED element_cache

InterpretCommand == InterpretCommandFrom(Responses)

\* result = await self._execute_action_plan(action_plan); return result
CommandReturn ==
    /\ pc = "plan_return"
    /\ outcome' = "returned"
    /\ pc' = "display"
    /\ UNCHANGED <<ncmd, page_state, response, action_plan, i, initial_navigation_done,
                   element, current_url, exc, result, log>>
    /\ UNCHANGED health
    /\ UNCHANGED storage
    /\ UNCHANGED element_cache

\* CommandExcept with the handler re-raising instead of returning the message
CommandExcept_Reraise ==
    /\ pc = "command_except"
    /\ outcome' = "raised"
    /\ pc' = "display"
    /\ UNCHANGED <<ncmd, page_state, response, action_plan, i, initial_navigation_done,
                   element, current_url, exc, result, log>>
    /\ UNCHANGED health
    /\ UNCHANGED storage
    /\ UNCHANGED element_cache

\* CommandExcept with the failed command also marking the session unhealthy
CommandExcept_MarkUnhealthy ==
    /\ pc = "command_except"
    /\ result' = JStr(<<"Error executing command: ">> \o exc)
    /\ exc' = <<>>
    /\ outcome' = "returned"
    /\ pc' = "display"
    /\ is_healthy' = FALSE
    /\ UNCHANGED <<ncmd, page_state, response, action_plan, i, initial_navigation_done,
                   element, current_url, log, last_health_check, monitors>>
    /\ UNCHANGED element_cache
    /\ UNCHANGED storage

\* except Exception as e: return f"Error executing command: {str(e)}"
CommandExcept ==
    /\ pc = "command_except"
    /\ result' = JStr(<<"Error executing command: ">> \o exc)
    /\ exc' = <<>>
    /\ outcome' = "returned"
    /\ pc' = "display"
    /\ UNCHANGED <<ncmd, page_state, response, action_plan, i, initial_navigation_done,
                   element, current_url, log>>
    /\ UNCHANGED health
    /\ UNCHANGED storage
    /\ UNCHANGED element_cache

\* update_status(...) in the try, or in the except clauses of the loop body;
\* either way the while loop goes round
Display ==
    /\ pc = "display"
    /\ pc' = "prompt"
    /\ UNCHANGED <<ncmd, page_state, response, action_plan, i, initial_navigation_done,
                   element, current_url, exc, result, outcome, log>>
    /\ UNCHANGED health
    /\ UNCHANGED storage
    /\ UNCHANGED element_cache

-----------------------------------------------------------------------------
(* The health monitor: Browser._monitor_health, _check_health, _attempt_recovery *)

\* @retry(stop=stop_after_attempt(3), ...)
stop_after_attempt == 3

\* a monitor task in asyncio.sleep(self._health_check_interval)
Sleeping == [pc |-> "sleep", attempt |-> 0]

\* what the foreground task holds
foreground == <<pc, ncmd, page_state, response, action_plan, i, initial_navigation_done,
                element, current_url, exc, result, outcome, log, element_cache>>

\* Running with the monitor tasks outliving run_browser
Running_Forever == TRUE

\* asyncio.run has not ended: the tasks it runs are alive
Running == pc # "closed"

\* await asyncio.sleep(self._health_check_interval) returns
MonitorSleep(m) ==
    /\ Running
    /\ monitors[m].pc = "sleep"
    /\ monitors' = [monitors EXCEPT ![m] = [pc |-> "check", attempt |-> 1]]
    /\ UNCHANGED <<is_healthy, last_health_check>>
    /\ UNCHANGED foreground
    /\ UNCHANGED storage

\* one attempt of _check_health under tenacity's retry, up to the next await.
\* A failed attempt short of the last is followed by the back-off wait; the
\* last raises RetryError into _monitor_health's except clause, which sets the
\* flag and enters _attempt_recovery.  self.page and self.browser are set
\* before the task is created and never reset, so the "not self.page" branch
\* is not taken.
CheckHealth(m) ==
    /\ Running
    /\ monitors[m].pc = "check"
    /\ \/ \E t \in last_health_check..MaxTime :
            /\ is_healthy' = TRUE
            /\ last_health_check' = t
            /\ monitors' = [monitors EXCEPT ![m] = Sleeping]
       \/ /\ is_healthy' = FALSE
          /\ UNCHANGED last_health_check
          /\ monitors' = [monitors EXCEPT ![m] =
                 IF monitors[m].attempt < stop_after_attempt
                 THEN [pc |-> "check", attempt |-> monitors[m].attempt + 1]
                 ELSE [pc |-> "recover", attempt |-> 0]]
    /\ UNCHANGED foreground
    /\ UNCHANGED storage

\* _execute_action_plan has been entered and has not returned
Executing == pc \in {"plan_url", "for", "action", "resolved", "extraction", "plan_except"}

\* start() run again by _attempt_recovery: the page, context and browser of
\* the session were closed by _cleanup and self.page, self.dom_manager and
\* self.llm_controller now belong to a new session.  A plan in execution
\* goes on with whatever these attributes hold; with `seen`, the log of its
\* operations records where the restart fell.
Restarted(seen) ==
    /\ log' = IF seen /\ Executing THEN Append(log, Ev("restarted", i, <<>>)) ELSE log
    /\ element_cache' = EmptyDict

\* AttemptRecovery with a failed restart tried again
AttemptRecovery_Retry(m) ==
    /\ Running
    /\ monitors[m].pc = "recover"
    /\ \/ /\ Len(monitors) < MaxMonitors
          /\ monitors' = Append([monitors EXCEPT ![m] = Sleeping], Sleeping)
          /\ Restarted(FALSE)
       \/ /\ monitors' = [monitors EXCEPT ![m] = [pc |-> "recover", attempt |-> 1]]
          /\ UNCHANGED <<log, element_cache>>
    /\ UNCHANGED <<is_healthy, last_health_check>>
    /\ UNCHANGED <<pc, ncmd, page_state, response, action_plan, i, initial_navigation_done,
                   element, current_url, exc, result, outcome>>
    /\ UNCHANGED storage

\* await self._attempt_recovery(): _cleanup, then start().  A start that
\* succeeds creates a further _monitor_health task and this one loops on; a
\* start that fails raises BrowserError out of the except clause and ends
\* this task, its exception retrieved by nobody.
AttemptRecoverySeen(m, seen) ==
    /\ Running
    /\ monitors[m].pc = "recover"
    /\ \/ /\ Len(monitors) < MaxMonitors
          /\ monitors' = Append([monitors EXCEPT ![m] = Sleeping], Sleeping)
          /\ Restarted(seen)
       \/ /\ monitors' = [monitors EXCEPT ![m] = [pc |-> "dead", attempt |-> 0]]
          /\ UNCHANGED <<log, element_cache>>
    /\ UNCHANGED <<is_healthy, last_health_check>>
    /\ UNCHANGED <<pc, ncmd, page_state, response, action_plan, i, initial_navigation_done,
                   element, current_url, exc, result, outcome>>
    /\ UNCHANGED storage

AttemptRecovery(m) == AttemptRecoverySeen(m, FALSE)

MonitorHealth ==
    \E m \in DOMAIN monitors :
        \/ MonitorSleep(m)
        \/ CheckHealth(m)
        \/ AttemptRecovery(m)

\* the monitor, with its restarts entered in the log of the plan in execution
MonitorHealthSeen ==
    \E m \in DOMAIN monitors :
        \/ MonitorSleep(m)
        \/ CheckHealth(m)
        \/ AttemptRecoverySeen(m, TRUE)

-----------------------------------------------------------------------------
(* The program: the command loop around execute_command *)

Init ==
    /\ pc = "prompt"
    /\ ncmd = 0
    /\ page_state = ""
    /\ response = NoResponse
    /\ action_plan = NoPlan
    /\ i = 0
    /\ initial_navigation_done = FALSE
    /\ element = "unset"
    /\ current_url = <<>>
    /\ exc = <<>>
    /\ result = NoValue
    /\ outcome = "none"
    /\ log = <<>>
    /\ is_healthy = TRUE
    /\ last_health_check = 0
    /\ monitors = <<Sleeping>>
    /\ element_cache = EmptyDict
    /\ cookie_files = EmptyDict
    /\ cache_files = EmptyDict
    /\ now = 0
    /\ context_cookies = {}

ExecutePlan ==
    \/ PlanUrl
    \/ ForNext
    \/ ActionNavigate
    \/ ActionFindElement
    \/ ActionClick
    \/ ActionType
    \/ ActionWait
    \/ Extraction
    \/ PlanExcept

Next ==
    \/ Prompt
    \/ PromptExit
    \/ CaptureDomState
    \/ InterpretCommand
    \/ ExecutePlan
    \/ CommandReturn
    \/ CommandExcept
    \/ Display

Spec == Init /\ [][Next]_vars

-----------------------------------------------------------------------------
(* _execute_action_plan on its own: called with any plan dict *)

PlanActions ==
    { [type |-> "navigate", value |-> <<"https://", "a.com">>],
      [type |-> "navigate", value |-> <<"b.com">>],
      [type |-> "click", selector |-> <<"#btn">>],
      [type |-> "type", selector |-> <<"#q">>, value |-> <<"txt">>, press_enter |-> TRUE],
      [type |-> "type", selector |-> <<"#q">>, value |-> <<"txt">>],
      [type |-> "wait", wait_for |-> <<"#w">>],
      [type |-> "wait"],
      [type |-> "hover", selector |-> <<"#btn">>] }

PlanUrls == { EmptyDict, [url |-> <<"https://", "a.com">>], [url |-> <<"b.com">>] }

PlanExtractions ==
    { EmptyDict, [extraction |-> EmptyDict], [extraction |-> [title |-> <<"h1">>]] }

Plans ==
    { u @@ [actions |-> l] @@ e :
        u \in PlanUrls, l \in ListsOver(PlanActions, MaxActions), e \in PlanExtractions }

InitPlan ==
    /\ pc = "plan_url"
    /\ ncmd = 1
    /\ page_state = "Current URL"
    /\ response = NoResponse
    /\ action_plan \in Plans
    /\ i = 0
    /\ initial_navigation_done = FALSE
    /\ element = "unset"
    /\ current_url = <<>>
    /\ exc = <<>>
    /\ result = NoValue
    /\ outcome = "running"
    /\ log = <<>>
    /\ is_healthy = TRUE
    /\ last_health_check = 0
    /\ monitors = <<Sleeping>>
    /\ element_cache = EmptyDict
    /\ cookie_files = EmptyDict
    /\ cache_files = EmptyDict
    /\ now = 0
    /\ context_cookies = {}

SpecPlan == InitPlan /\ [][ExecutePlan]_vars

-----------------------------------------------------------------------------
(* The command loop with the health monitor running beside it *)

\* replies of a session that takes the executor through every kind of action
HealthReplies ==
    { Bare(Object([url |-> GoodUrl,
                   actions |-> JList(<<AClick,
                                       JDict([type |-> "type", selector |-> <<"#q">>,
                                              value |-> <<"txt">>])>>)])),
      Bare(Object([url |-> GoodUrl,
                   actions |-> JList(<<JDict([type |-> "navigate", value |-> <<"b.com">>]),
                                       JDict([type |-> "extract"])>>)])) }

\* _monitor_health on its own: the tasks and the two fields they maintain
SpecMonitor == Init /\ [][MonitorHealth]_vars

NextHealth ==
    \/ Prompt
    \/ PromptExit
    \/ CaptureDomState
    \/ InterpretCommandFrom(HealthReplies)
    \/ ExecutePlan
    \/ CommandReturn
    \/ CommandExcept
    \/ Display
    \/ MonitorHealth

SpecHealth == Init /\ [][NextHealth]_vars

\* one plan in execution with the monitor beside it
RestartPlans == { interpret_command(r).v : r \in HealthReplies }

InitRestart ==
    /\ pc = "plan_url"
    /\ ncmd = 1
    /\ page_state = "Current URL"
    /\ response = NoResponse
    /\ action_plan \in RestartPlans
    /\ i = 0
    /\ initial_navigation_done = FALSE
    /\ element = "unset"
    /\ current_url = <<>>
    /\ exc = <<>>
    /\ result = NoValue
    /\ outcome = "running"
    /\ log = <<>>
    /\ is_healthy = TRUE
    /\ last_health_check = 0
    /\ monitors = <<Sleeping>>
    /\ element_cache = EmptyDict
    /\ cookie_files = EmptyDict
    /\ cache_files = EmptyDict
    /\ now = 0
    /\ context_cookies = {}

NextRestart ==
    \/ ExecutePlan
    \/ MonitorHealthSeen

SpecRestart == InitRestart /\ [][NextRestart]_vars

-----------------------------------------------------------------------------
(* DOMManager.find_element and CookieManager.handle_consent_dialogs, statement
   by statement.  A run of a block of code is [raised, value, events]: whether
   an exception left the block, what it returned, the page operations done. *)

Ran(evs) == [raised |-> FALSE, value |-> "none", events |-> evs]
Returned(v, evs) == [raised |-> FALSE, value |-> v, events |-> evs]
Raised(evs) == [raised |-> TRUE, value |-> "none", events |-> evs]

\* a; b
Then(a, b) ==
    IF a.raised THEN a
    ELSE [raised |-> b.raised, value |-> b.value, events |-> a.events \o b.events]

\* try: a / except Exception: log it (and return None)
TryExcept(a) == [raised |-> FALSE, value |-> a.value, events |-> a.events]

\* what the page does when find_element operates it
FindOutcomes ==
    [ evaluate : {"raises", "null", "empty_id", "id"},
      query_selector : {"raises", "none", "element"},
      wait_for_selector : {"timeout", "element"} ]

\* the body of find_element's try block
find_element_body(sel, n, o) ==
    LET first == Ev("NazareDOM.findElement", n, <<o.evaluate>>) IN
    CASE o.evaluate = "raises" -> Raised(<<first>>)
      [] o.evaluate = "id" ->
           LET second == Ev("query_selector", n, <<o.query_selector>>) IN
           CASE o.query_selector = "raises" -> Raised(<<first, second>>)
             [] o.query_selector = "element" -> Returned("found", <<first, second>>)
             [] OTHER -> Returned("none", <<first, second>>)
      [] OTHER ->
           LET second == Ev("wait_for_selector", n, <<o.wait_for_selector>>) IN
           IF o.wait_for_selector = "element"
           THEN Returned("found", <<first, second>>)
           ELSE Raised(<<first, second>>)

\* find_element_run with the try/except left out
find_element_run_Unguarded(sel, n, o) == find_element_body(sel, n, o)

\* DOMManager.find_element(selector), the n-th call made
find_element_run(sel, n, o) == TryExcept(find_element_body(sel, n, o))

\* "ft.com" in url
In(site, url) == \E k \in DOMAIN url : url[k] = site

\* what the page does when handle_consent_dialogs operates it
ConsentOutcomes ==
    [ site : {"evaluate_raises", "clicked", "nothing", "last_raises"},
      generic : {"evaluate_raises", "clicked", "nothing"},
      sweep : {"ok", "raises"} ]

\* the ft.com layer: a script, the consent buttons (each in its own
\* try/except), then context.add_cookies
ft_layer(n, o) ==
    LET js == Ev("site_evaluate", n, <<"ft.com">>)
        buttons == Ev("site_buttons", n, <<IF o.site = "clicked" THEN "clicked" ELSE "nothing">>)
        cookies == Ev("add_cookies", n, <<"ft.com">>)
    IN  CASE o.site = "evaluate_raises" -> Raised(<<js>>)
          [] o.site = "last_raises" -> Raised(<<js, buttons, cookies>>)
          [] OTHER -> Ran(<<js, buttons, cookies>>)

\* the youtube.com layer: a script, then the consent button
youtube_layer(n, o) ==
    LET js == Ev("site_evaluate", n, <<"youtube.com">>)
        button == Ev("site_buttons", n, <<IF o.site = "clicked" THEN "clicked" ELSE "nothing">>)
    IN  CASE o.site = "evaluate_raises" -> Raised(<<js>>)
          [] o.site = "last_raises" -> Raised(<<js, button>>)
          [] OTHER -> Ran(<<js, button>>)

\* the generic layer: a script outside any inner try, then the common
\* consent buttons (each in its own try/except)
generic_layer(n, o) ==
    LET js == Ev("generic_evaluate", n, <<>>)
        buttons == Ev("generic_buttons", n, <<o.generic>>)
    IN  IF o.generic = "evaluate_raises" THEN Raised(<<js>>) ELSE Ran(<<js, buttons>>)

\* the final sweep that removes what is left of the dialogs
remove_dialogs(n, o) ==
    LET js == Ev("remove_dialogs", n, <<o.sweep>>) IN
    IF o.sweep = "raises" THEN Raised(<<js>>) ELSE Ran(<<js>>)

site_layer(url, n, o) ==
    IF In("ft.com", url) THEN TryExcept(ft_layer(n, o))
    ELSE IF In("youtube.com", url) THEN TryExcept(youtube_layer(n, o))
    ELSE Ran(<<>>)

\* handle_consent_dialogs with the generic layer and the sweep outside any try
handle_consent_dialogs_Unguarded(url, n, o) ==
    Then(Then(site_layer(url, n, o), generic_layer(n, o)), remove_dialogs(n, o))

\* CookieManager.handle_consent_dialogs(page, url), the n-th call made
handle_consent_dialogs(url, n, o) ==
    Then(TryExcept(Then(site_layer(url, n, o), generic_layer(n, o))),
         TryExcept(remove_dialogs(n, o)))

PageUrls == { <<"https://", "ft.com">>, <<"https://", "youtube.com">>, <<"https://", "a.com">> }

\* the function called leaves its result in `element`, its operations in the
\* log and an exception that left it in `exc`; i counts the calls
PageCall(r, name) ==
    /\ i' = i + 1
    /\ log' = log \o r.events \o <<Ev(name, i + 1, <<IF r.raised THEN "raised" ELSE r.value>>)>>
    /\ element' = r.value
    /\ exc' = IF r.raised THEN <<name, "raised">> ELSE <<>>
    /\ pc' = IF r.raised THEN "page_raised" ELSE "page"
    /\ UNCHANGED <<ncmd, page_state, response, action_plan, initial_navigation_done,
                   current_url, result, outcome>>
    /\ UNCHANGED health
    /\ UNCHANGED storage
    /\ UNCHANGED element_cache

\* await self.dom_manager.find_element(selector)
FindElement ==
    /\ pc = "page"
    /\ i < MaxCalls
    /\ \E o \in FindOutcomes :
         PageCall(find_element_run(<<"#btn">>, i + 1, o), "find_element")

\* await self.cookie_manager.handle_consent_dialogs(self.page, url)
HandleConsentDialogs ==
    /\ pc = "page"
    /\ i < MaxCalls
    /\ \E o \in ConsentOutcomes :
         PageCall(handle_consent_dialogs(current_url, i + 1, o), "handle_consent_dialogs")

InitPage ==
    /\ pc = "page"
    /\ ncmd = 1
    /\ page_state = "Current URL"
    /\ response = NoResponse
    /\ action_plan = NoPlan
    /\ i = 0
    /\ initial_navigation_done = FALSE
    /\ element = "unset"
    /\ current_url \in PageUrls
    /\ exc = <<>>
    /\ result = NoValue
    /\ outcome = "running"
    /\ log = <<>>
    /\ is_healthy = TRUE
    /\ last_health_check = 0
    /\ monitors = <<Sleeping>>
    /\ element_cache = EmptyDict
    /\ cookie_files = EmptyDict
    /\ cache_files = EmptyDict
    /\ now = 0
    /\ context_cookies = {}

NextPage ==
    \/ FindElement
    \/ HandleConsentDialogs

SpecPage == InitPage /\ [][NextPage]_vars

-----------------------------------------------------------------------------
(* Properties *)

HasActions == "actions" \in DOMAIN action_plan
InAction == HasActions /\ i \in 1..Len(action_plan["actions"])

IsValue(r) ==
    IF r.ty = "str" THEN Len(r.v) > 0
    ELSE r.ty = "dict" /\ DOMAIN r.v # {}

IsText(r, first) == r.ty = "str" /\ Len(r.v) > 0 /\ r.v[1] = first

PlanLen == IF HasActions THEN Len(action_plan["actions"]) ELSE 0

\* an upper bound on the steps execute_command still has to take
StepsLeft ==
    CASE pc = "capture" -> 3 * MaxActions + 9
      [] pc = "interpret" -> 3 * MaxActions + 8
      [] pc = "plan_url" -> 3 * PlanLen + 7
      [] pc = "action" -> 3 * (PlanLen - i) + 8
      [] pc = "resolved" -> 3 * (PlanLen - i) + 7
      [] pc = "for" -> 3 * (PlanLen - i) + 6
      [] pc = "extraction" -> 5
      [] pc = "plan_except" -> 4
      [] pc \in {"plan_return", "command_except"} -> 3
      [] OTHER -> 0

\* C1: every execute_command call terminates by returning a value (a success
\* payload or an error string) and never raises, whatever failed on the way:
\* each step of a running call lowers StepsLeft, a call that has ended has
\* returned a value, and after the result is displayed the loop is back at the
\* prompt.
C1_ExecuteCommandReturns ==
    /\ [](/\ outcome # "raised"
          /\ outcome = "running" => StepsLeft > 0
          /\ pc = "display" => outcome = "returned" /\ IsValue(result))
    /\ [][outcome = "running" => StepsLeft' < StepsLeft]_vars
    /\ [][pc = "display" => pc' = "prompt"]_vars

\* a second command has been answered with an error string
C1_Witness ==
    /\ pc = "display"
    /\ ncmd = 2
    /\ outcome = "returned"
    /\ IsText(result, "Error executing action plan: ")

Begins == SelectSeq(log, LAMBDA e : e.ev = "action")

\* C2: the actions of a plan run in plan order, one at a time: the k-th action
\* begun is action k, action k+1 begins only right after action k completed (or
\* was skipped as a redundant navigation), no operation of an earlier action
\* follows one of a later action, and none is performed twice.
C2_PlanOrder ==
    /\ LET begun == Begins IN \A k \in DOMAIN begun : begun[k].step = k
    /\ \A q \in DOMAIN log : q > 1 => log[q - 1].step <= log[q].step
    /\ Cardinality({ log[q] : q \in DOMAIN log }) = Len(log)
    /\ \A q \in DOMAIN log :
         log[q].ev = "action" /\ log[q].step > 1 =>
            /\ log[q - 1].step = log[q].step - 1
            /\ log[q - 1].ev \in {"completed", "skip_navigation"}

\* a plan of two actions ran to its end
C2_Witness ==
    /\ pc = "display"
    /\ Len(Begins) = 2
    /\ \E p, q \in DOMAIN log :
         /\ p < q
         /\ log[p] = Ev("click", 1, <<"#btn">>)
         /\ log[q] = Ev("type", 2, <<"txt">>)

Last(sq) == sq[Len(sq)]

\* the executor has left the current action's "element is None" branch
Unresolved(kind) ==
    /\ InAction
    /\ action_type = kind
    /\ element = "none"
    /\ pc # "resolved"

Finished == pc \in {"plan_return", "display", "prompt", "closed"}

\* C3: a Click whose target find_element cannot resolve ends the plan with the
\* message "Could not find clickable element: <target>"; the failed lookup is
\* the last operation of the command: no later action and no extraction runs.
C3_ClickNotFoundFails ==
    Unresolved("click") =>
        /\ Finished
        /\ result = JStr(<<"Could not find clickable element: ">> \o selector)
        /\ Last(log) = Ev("find_element_none", i, selector)

\* the click was the first of two actions; the second never began
C3_Witness ==
    /\ Unresolved("click")
    /\ pc = "display"
    /\ i = 1
    /\ Len(action_plan["actions"]) = 2
    /\ IsText(result, "Could not find clickable element: ")

\* C4: a Type whose target find_element cannot resolve ends the plan with the
\* message "Could not find input element: <target>"; nothing is typed, Enter is
\* not pressed, and no later action or extraction runs.
C4_TypeNotFoundFails ==
    Unresolved("type") =>
        /\ Finished
        /\ result = JStr(<<"Could not find input element: ">> \o selector)
        /\ Last(log) = Ev("find_element_none", i, selector)
        /\ \A q \in DOMAIN log :
             log[q].step = i => log[q].ev \notin {"type", "press_enter"}

\* a type action that asks for Enter, first of two actions, found no element
C4_Witness ==
    /\ Unresolved("type")
    /\ pc = "display"
    /\ i = 1
    /\ CurAction["press_enter"]
    /\ Len(action_plan["actions"]) = 2
    /\ IsText(result, "Could not find input element: ")

\* log[q] records a wait whose target find_element did not find
WaitMiss(q) ==
    /\ log[q].ev = "find_element_none"
    /\ lower(Get(action_plan["actions"][log[q].step], "type", "")) = "wait"

Success == JStr(<<"Command executed successfully">>)

\* C5: a Wait whose target never appears does not fail the plan: the action
\* completes, the loop goes on to the next action, and a plan that ends there
\* without extraction returns the success result.
C5_WaitMissProceeds ==
    \A q \in DOMAIN log :
        WaitMiss(q) =>
            /\ q < Len(log)
            /\ log[q + 1] = Ev("completed", log[q].step, <<>>)
            /\ q + 1 = Len(log) =>
                 \/ pc \in {"for", "extraction"}
                 \/ pc = "plan_return" /\ result = Success

\* after a wait that found nothing, the next action was performed and the plan
\* returned success
C5_Witness ==
    /\ pc = "plan_return"
    /\ result = Success
    /\ \E q \in DOMAIN log :
         /\ WaitMiss(q)
         /\ log[q].step = 1
         /\ \E p \in DOMAIN log : log[p].ev = "click" /\ log[p].step = 2

Gotos == SelectSeq(log, LAMBDA e : e.ev = "goto")

\* action k is a navigate to the plan's top-level url
RedundantNavigate(k) ==
    /\ "url" \in DOMAIN action_plan
    /\ HasActions
    /\ k \in 1..Len(action_plan["actions"])
    /\ lower(Get(action_plan["actions"][k], "type", "")) = "navigate"
    /\ normalize_url(Get(action_plan["actions"][k], "value", <<>>))
         = normalize_url(action_plan["url"])

PastPlanUrl == pc \notin {"capture", "interpret", "command_except", "plan_url"}

\* C6: in a plan whose top-level url is also the value of a navigate action,
\* only one navigation takes place, that of the top-level url: once the plan is
\* past it there is exactly one page load in the log, and the navigate action,
\* when its turn has come, is skipped.
C6_OneNavigation ==
    \A k \in 1..MaxActions + 1 :
        RedundantNavigate(k) =>
            /\ Len(Gotos) <= 1
            /\ PastPlanUrl =>
                 /\ Len(Gotos) = 1
                 /\ Gotos[1] = Ev("goto", 0, normalize_url(action_plan["url"]))
            /\ (i > k \/ (i = k /\ pc = "for")) =>
                 \E q \in DOMAIN log : log[q].ev = "skip_navigation" /\ log[q].step = k

\* the plan {url: b.com, actions: [click, navigate b.com]} ran to success
C6_Witness ==
    /\ pc = "display"
    /\ RedundantNavigate(2)
    /\ action_plan["url"] = <<"https://", "b.com">>
    /\ Len(Gotos) = 1
    /\ \E q \in DOMAIN log : log[q] = Ev("skip_navigation", 2, <<"b.com">>)
    /\ \E q \in DOMAIN log : log[q] = Ev("completed", 1, <<>>)

\* C7: a navigate action is skipped only if a navigation to the same URL took
\* place earlier in the plan (so a navigate to a URL not yet visited in the plan
\* is carried out).
C7_SkipOnlySameUrl ==
    \A q \in DOMAIN log :
        log[q].ev = "skip_navigation" =>
            \E p \in 1..(q - 1) :
                log[p].ev = "goto" /\ log[p].arg = normalize_url(log[q].arg)

Rejected == pc \in {"command_except", "display", "prompt", "closed"}

\* C8: when the reply cannot be parsed or validated into a plan, the plan never
\* starts: from the receipt of the command to its error result the browser
\* performs no navigation, click, type, cookie load or cookie save.
C8_RejectedReplyNeverStarts ==
    /\ pc \in {"capture", "interpret"} => log = <<>>
    /\ (response # NoResponse /\ ~parse(response).ok) =>
         /\ Rejected
         /\ action_plan = NoPlan
         /\ log = <<>>
         /\ pc # "command_except" => IsText(result, "Error executing command: ")

\* a reply whose JSON object lacks the actions list was answered with an error
C8_Witness ==
    /\ pc = "display"
    /\ response = Bare(Object([url |-> GoodUrl]))
    /\ ~parse(response).ok
    /\ IsText(result, "Error executing command: ")
    /\ log = <<>>

\* the five kinds of the data model
Kinds == {"navigate", "click", "type", "wait", "extract"}

ItemsOf(r) ==
    IF /\ r.doc.kind = "object"
       /\ "actions" \in DOMAIN r.doc.v
       /\ isinstance(r.doc.v["actions"], "list")
    THEN r.doc.v["actions"].v
    ELSE <<>>

HasUnknownKind(r) ==
    \E k \in DOMAIN ItemsOf(r) :
        /\ isinstance(ItemsOf(r)[k], "dict")
        /\ Get(ItemsOf(r)[k].v, "type", "None") \notin Kinds

\* C9: a reply with an action of an unknown kind is rejected as a whole: no
\* plan is made of its other actions and nothing of it is executed.
C9_UnknownKindRejected ==
    HasUnknownKind(response) =>
        /\ Rejected
        /\ action_plan = NoPlan
        /\ log = <<>>

\* the reply [click, hover] was answered with an error
C9_Witness ==
    /\ pc = "display"
    /\ HasUnknownKind(response)
    /\ Len(ItemsOf(response)) = 2
    /\ ItemsOf(response)[1] = AClick
    /\ IsText(result, "Error executing command: ")

\* a bare JSON object with a string url and a list of actions, each a dict
\* whose type is one of the five kinds
WellFormedFiveKinds(r) ==
    /\ r.pre = <<>> /\ r.post = <<>>
    /\ r.doc.kind = "object"
    /\ "url" \in DOMAIN r.doc.v /\ isinstance(r.doc.v["url"], "str")
    /\ "actions" \in DOMAIN r.doc.v /\ isinstance(r.doc.v["actions"], "list")
    /\ \A k \in DOMAIN ItemsOf(r) :
         /\ isinstance(ItemsOf(r)[k], "dict")
         /\ Get(ItemsOf(r)[k].v, "type", "None") \in Kinds

\* C10: a plan whose actions are of the five kinds Navigate, Click, Type, Wait
\* and Extract passes validation (and so reaches the executor).
C10_FiveKindsAccepted ==
    WellFormedFiveKinds(response) => pc # "command_except"

\* interpret_command returned a plan for the reply
Accepted == response # NoResponse /\ action_plan # NoPlan

RawPlan == response.doc.v

\* scheme://host, the scheme being http or https
IsAbsoluteUrl(u) ==
    /\ Len(u) = 2
    /\ u[1] \in {"http://", "https://"}
    /\ u[2] \notin {"http://", "https://"}

\* C11: every plan parse accepts satisfies the cross-field rules: each click
\* and type action has a non-empty target and each navigate action's value is
\* an absolute URL once the scheme is normalized.
C11_CrossFieldRules ==
    Accepted =>
        \A k \in DOMAIN action_plan["actions"] :
            LET a == action_plan["actions"][k] IN
            /\ a["type"] \in {"click", "type"} => a["selector"] # <<>>
            /\ a["type"] = "navigate" => IsAbsoluteUrl(normalize_url(a["value"]))

\* C12: the url of an accepted plan begins with http:// or https://: a url
\* without a scheme was accepted with https:// put in front, a url with one
\* is unchanged, and normalizing again (as the executor does before it
\* navigates) changes nothing.
C12_UrlNormalized ==
    Accepted =>
        LET raw == RawPlan["url"].v
            url == action_plan["url"]
        IN  /\ Len(url) >= 1 /\ url[1] \in {"http://", "https://"}
            /\ url = IF Len(raw) >= 1 /\ raw[1] \in {"http://", "https://"}
                     THEN raw ELSE <<"https://">> \o raw
            /\ \A q \in DOMAIN log :
                 log[q].step = 0 /\ log[q].ev \in {"apply_settings", "goto"}
                    => log[q].arg = url

\* the reply's url b.com was loaded as https://b.com
C12_Witness ==
    /\ Accepted
    /\ RawPlan["url"].v = <<"b.com">>
    /\ \E q \in DOMAIN log : log[q] = Ev("goto", 0, <<"https://", "b.com">>)

\* C13: every plan whose url is not a valid absolute URL is rejected by parse
\* and never reaches the executor.
C13_BadUrlRejected ==
    Accepted => IsAbsoluteUrl(action_plan["url"])

OptionalDefaults ==
    [value |-> <<>>, selector |-> <<>>, wait_for |-> <<>>, press_enter |-> FALSE]

\* a bare JSON object whose required fields are as the parser wants them
RequiredFieldsOk(r) ==
    /\ r.pre = <<>> /\ r.post = <<>>
    /\ r.doc.kind = "object"
    /\ "url" \in DOMAIN r.doc.v /\ isinstance(r.doc.v["url"], "str")
    /\ "actions" \in DOMAIN r.doc.v /\ isinstance(r.doc.v["actions"], "list")
    /\ \A k \in DOMAIN ItemsOf(r) :
         /\ isinstance(ItemsOf(r)[k], "dict")
         /\ Get(ItemsOf(r)[k].v, "type", "None") \in valid_types

\* C14: a reply is never rejected for an optional field it omits, and in the
\* accepted plan every action has value, selector, wait_for and press_enter
\* ("" and false where the reply omitted them) and the plan has extraction
\* ({} where omitted); what the reply supplied is unchanged.
C14_DefaultsFilled ==
    /\ RequiredFieldsOk(response) => pc # "command_except"
    /\ Accepted =>
         /\ Len(action_plan["actions"]) = Len(ItemsOf(response))
         /\ \A k \in DOMAIN action_plan["actions"] :
              LET a == action_plan["actions"][k]
                  raw == ItemsOf(response)[k].v
              IN  /\ DOMAIN a = DOMAIN raw \cup DOMAIN OptionalDefaults
                  /\ \A f \in DOMAIN a :
                       a[f] = IF f \in DOMAIN raw THEN raw[f] ELSE OptionalDefaults[f]
         /\ "extraction" \in DOMAIN action_plan
         /\ action_plan["extraction"] = Get(RawPlan, "extraction", EmptyDict)

\* a reply whose only action gives nothing but its type and target, and that
\* has no extraction, was accepted and its click performed
C14_Witness ==
    /\ Accepted
    /\ "extraction" \notin DOMAIN RawPlan
    /\ ItemsOf(response) = <<AClick>>
    /\ action_plan["extraction"] = EmptyDict
    /\ action_plan["actions"][1]["press_enter"] = FALSE
    /\ \E q \in DOMAIN log : log[q] = Ev("click", 1, <<"#btn">>)

\* what execute_command has made of the reply r, compared with the state
SameAsParsed(r) ==
    pc \notin {"capture", "interpret"} =>
        LET got == interpret_command(r) IN
        IF got.ok
        THEN action_plan = got.v
        ELSE /\ action_plan = NoPlan
             /\ pc = "command_except" => exc = got.err

HasBrace(t, ch) == \E k \in DOMAIN t : t[k] = ch

\* C15 as stated: whatever prose surrounds the JSON text, the reply is parsed
\* to the same plan or the same rejection as the JSON text alone.
C15_AnyProse ==
    response # NoResponse => SameAsParsed(Bare(response.doc))

\* C15 amended: with no "{" in the prose before the JSON text and no "}" in
\* the prose after it, the reply is parsed to the same plan or the same
\* rejection as the JSON text alone.
C15_BraceFreeProse ==
    (/\ response # NoResponse
     /\ ~HasBrace(response.pre, "{")
     /\ ~HasBrace(response.post, "}"))
        => SameAsParsed(Bare(response.doc))

\* a plan between "Sure:" and "done" was accepted and its click performed
C15_Witness ==
    /\ Accepted
    /\ response.pre = <<"Sure:">>
    /\ response.post = <<"done">>
    /\ \E q \in DOMAIN log : log[q] = Ev("click", 1, <<"#btn">>)

\* the top-level navigation and every action of the plan succeeded, and
\* _execute_action_plan has returned
ActionsDone ==
    /\ Finished
    /\ \E q \in DOMAIN log : log[q].ev = "save_cookies" /\ log[q].step = 0
    /\ i = Len(action_plan["actions"])
    /\ i > 0 => \E q \in DOMAIN log :
                    /\ log[q].step = i
                    /\ log[q].ev \in {"completed", "skip_navigation"}

\* C16: extraction is evaluated only if the reply carries an extraction
\* directive: without one the page content is not captured,
\* extract_information is not called and a plan whose actions all succeeded
\* returns "Command executed successfully"; with one, what
\* extract_information returns is the result.
C16_ExtractionOnlyIfDirective ==
    Accepted =>
        IF "extraction" \in DOMAIN RawPlan /\ DOMAIN RawPlan["extraction"] # {}
        THEN \A q \in DOMAIN log :
                (log[q].ev = "extract_information" /\ pc # "extraction")
                    => result.ty = "dict"
        ELSE /\ \A q \in DOMAIN log :
                  log[q].ev \notin {"page_content", "extract_information"}
             /\ ActionsDone => result = Success

\* C17: in a health-check cycle that ends with the session declared unhealthy
\* (the last probe attempt failed), teardown and re-initialization is entered
\* once; the attempt is followed by the next cycle or, when it failed, by the
\* end of the monitor, never by another attempt, and a monitor that has ended
\* attempts nothing more.
C17_RecoveryOncePerCycle ==
    [][\A m \in DOMAIN monitors :
        /\ monitors[m].pc = "dead" => monitors'[m] = monitors[m]
        /\ (monitors[m].pc = "recover" /\ monitors'[m] # monitors[m])
              => monitors'[m].pc \in {"sleep", "dead"}
        /\ (monitors[m].pc # "recover" /\ monitors'[m].pc = "recover")
              => /\ monitors[m] = [pc |-> "check", attempt |-> stop_after_attempt]
                 /\ ~is_healthy']_vars

\* a recovery succeeded, a later one failed and ended its monitor
C17_Witness ==
    /\ Len(monitors) = 2
    /\ \E m \in DOMAIN monitors : monitors[m].pc = "dead"

\* some failed restart has ended a monitor task
RecoveryFailed == \E m \in DOMAIN monitors : monitors[m].pc = "dead"

\* C18: once the restart of a recovery has failed, the failure is fatal: the
\* command loop accepts no further command.
C18_FailedRecoveryStopsLoop ==
    [][RecoveryFailed => ncmd' = ncmd]_vars

\* some monitor has used up its retry budget at least once
BudgetExhausted ==
    \/ Len(monitors) > 1
    \/ \E m \in DOMAIN monitors : monitors[m].pc \in {"recover", "dead"}

\* C19: the session is marked unhealthy only once a probe has failed on all
\* three attempts: while the retries are still running, and after a retry
\* that succeeded, is_healthy has never been false.
C19_UnhealthyOnlyAfterRetries ==
    ~is_healthy => BudgetExhausted

\* C20: is_healthy and last_health_check change only in steps of the health
\* monitor, which leave the foreground task as it is: no step of
\* execute_command, of the plan executor or of the command loop changes them.
C20_HealthFrame ==
    [][(is_healthy' # is_healthy \/ last_health_check' # last_health_check)
          => (monitors' # monitors /\ UNCHANGED foreground)]_vars

\* a command that operated the browser has ended while the monitor has
\* passed one probe and failed a later one
C20_Witness ==
    /\ pc = "display"
    /\ \E q \in DOMAIN log : log[q].ev = "click"
    /\ ~is_healthy
    /\ last_health_check = 1

\* C21: the executor reads the health flag before it starts a plan: no plan
\* begins navigating or executing actions while is_healthy is false.
C21_HealthReadBeforePlan ==
    [][(pc = "plan_url" /\ pc' # "plan_url") => is_healthy]_vars

\* C22: at most one plan is in execution at a time: a command is accepted
\* only at the prompt, after the command before it has returned and been
\* displayed, and from then until it returns no other command is accepted.
C22_OnePlanAtATime ==
    /\ [](Executing => outcome = "running")
    /\ [][ncmd' # ncmd => (pc = "prompt" /\ outcome # "running" /\ ncmd' = ncmd + 1)]_vars
    /\ [][outcome = "running" => ncmd' = ncmd]_vars

\* the second command's plan is in execution, the first having returned
C22_Witness ==
    /\ ncmd = 2
    /\ pc = "resolved"
    /\ outcome = "running"

\* the session was restarted at log position p, after the plan had begun
RestartedMidPlan(p) ==
    /\ log[p].ev = "restarted"
    /\ \E q \in 1..(p - 1) : log[q].ev # "restarted"

\* C23: a restart of the session by the health monitor while a plan is in
\* execution ends the plan in failure: no operation of the plan is performed
\* after the restart, on the rebuilt session, and the plan returns an error.
C23_RestartEndsPlan ==
    \A p \in DOMAIN log :
        RestartedMidPlan(p) =>
            /\ \A q \in DOMAIN log : q > p => log[q].ev = "restarted"
            /\ Finished => IsText(result, "Error executing action plan: ")

\* page.goto raised at log position q: the page did not load
LoadFailed(q) ==
    /\ log[q].ev = "goto"
    /\ q = Len(log) \/ log[q + 1].ev # "loaded"

\* C24: a page that fails to load aborts the plan: the failed page.goto is
\* the last operation of the command (no later action, no extraction), no
\* cookies are saved for that URL, and the command does not raise but
\* returns the error string and goes back to the prompt.
C24_LoadFailureAbortsPlan ==
    \A q \in DOMAIN log :
        LoadFailed(q) =>
            /\ q = Len(log)
            /\ \A p \in DOMAIN log :
                   ~(log[p].ev = "save_cookies" /\ log[p].arg = log[q].arg)
            /\ pc = "plan_except" \/ Finished
            /\ outcome # "raised"
            /\ Finished => result = JStr(<<"Error executing action plan: ", "page.goto failed">>)

\* the top-level navigation of a plan of two actions failed to load; the
\* command returned its error
C24_Witness ==
    /\ pc = "display"
    /\ outcome = "returned"
    /\ PlanLen = 2
    /\ Len(log) > 0
    /\ LoadFailed(Len(log))
    /\ Last(log).step = 0

\* the event at position q - back is `e` of the navigation that log[q] belongs to
Before(q, back, e) ==
    /\ q - back >= 1
    /\ log[q - back] = Ev(e, log[q].step, log[q].arg)

\* C25: a navigation performs its sub-steps in this order: load the cookies
\* of the target, load the page, wait for the DOM and set the page up,
\* handle the consent dialogs, save the cookies.  Cookies are saved only
\* right after the consent handler ran, on a page that loaded; a navigation
\* that got as far as the consent handler saves the cookies next.
C25_NavigationOrder ==
    \A q \in DOMAIN log :
        /\ log[q].ev = "goto" => Before(q, 1, "load_cookies")
        /\ log[q].ev = "loaded" => Before(q, 1, "goto")
        /\ log[q].ev = "dom_ready" => Before(q, 1, "loaded")
        /\ log[q].ev = "consent" =>
              /\ Before(q, 1, "dom_ready")
              /\ q < Len(log)
              /\ log[q + 1] = Ev("save_cookies", log[q].step, log[q].arg)
        /\ log[q].ev = "save_cookies" =>
              /\ Before(q, 1, "consent")
              /\ Before(q, 2, "dom_ready")
              /\ Before(q, 3, "loaded")
              /\ Before(q, 4, "goto")
              /\ Before(q, 5, "load_cookies")

\* the top-level navigation ran to the end and the plan went on
C25_Witness ==
    /\ pc = "resolved"
    /\ \E q \in DOMAIN log : log[q].ev = "save_cookies" /\ log[q].step = 0

\* log position q is the return of a call of `name`
CallEnd(q, name) == log[q].ev = name

\* C26: handle_consent_dialogs never raises: whichever of its layers (the
\* site's own, the generic one, the final sweep) fails or finds nothing, the
\* call returns normally, and the removal sweep is the last operation of
\* every call, whatever happened in the layers before it.
C26_ConsentNeverRaises ==
    \A q \in DOMAIN log :
        CallEnd(q, "handle_consent_dialogs") =>
            /\ log[q].arg # <<"raised">>
            /\ q > 1
            /\ log[q - 1].ev = "remove_dialogs"
            /\ log[q - 1].step = log[q].step

\* on ft.com the site's layer and the generic script failed, and the sweep
\* failed after them; the call returned
C26_Witness ==
    /\ pc = "page"
    /\ In("ft.com", current_url)
    /\ \E q \in DOMAIN log :
         /\ q > 3
         /\ CallEnd(q, "handle_consent_dialogs")
         /\ log[q - 1] = Ev("remove_dialogs", log[q].step, <<"raises">>)
         /\ log[q - 2].ev = "generic_evaluate"
         /\ log[q - 3].ev = "add_cookies"

\* the strategy at log position q gave find_element no element
NoElement(q) == log[q].arg \notin {<<"id">>, <<"element">>}

\* C27: find_element never raises to its caller; when every strategy it
\* tried failed, timed out or threw, it returns no element; and the fallback
\* strategy, wait_for_selector, is tried only when the first strategy gave
\* no element.
C27_FindElementNeverRaises ==
    \A q \in DOMAIN log :
        /\ CallEnd(q, "find_element") =>
              /\ log[q].arg \in {<<"found">>, <<"none">>}
              /\ q > 1
              /\ log[q - 1].step = log[q].step
              /\ NoElement(q - 1) => log[q].arg = <<"none">>
        /\ log[q].ev = "wait_for_selector" =>
              /\ q > 1
              /\ log[q - 1].ev = "NazareDOM.findElement"
              /\ log[q - 1].step = log[q].step
              /\ NoElement(q - 1)

\* the first strategy found nothing and the fallback timed out: the call
\* returned no element
C27_Witness ==
    /\ pc = "page"
    /\ element = "none"
    /\ Len(log) >= 3
    /\ Last(log).ev = "find_element"
    /\ log[Len(log) - 1] = Ev("wait_for_selector", i, <<"timeout">>)
    /\ log[Len(log) - 2] = Ev("NazareDOM.findElement", i, <<"null">>)

C29_ResolutionRecorded ==
    (pc = "resolved" /\ element = "found") =>
        /\ current_url \in DOMAIN element_cache
        /\ selector \in DOMAIN element_cache[current_url]

\* C30: a selector that resolved before is looked up on the page again each
\* time it is needed: what find_element returns is what the page gives at
\* that moment, never the result of an earlier resolution.
C30_FreshLookup ==
    pc = "resolved" => Last(log) = Ev(find_element(element), i, selector)

\* the selector resolved in the first action is gone in the second: the
\* second lookup returned no element
C30_Witness ==
    /\ pc = "resolved"
    /\ i = 2
    /\ element = "none"
    /\ \E q \in DOMAIN log : log[q] = Ev("find_element_found", 1, selector)

\* the _monitor_health tasks that are still looping
ActiveMonitors == { m \in DOMAIN monitors : monitors[m].pc # "dead" }

\* C34: at most one health-monitor loop is active at any time, after any
\* sequence of failed probes and recoveries.
C34_OneMonitorLoop ==
    Cardinality(ActiveMonitors) <= 1

C36_HealthyAfterRecovery ==
    [][Len(monitors') > Len(monitors) => is_healthy']_vars

\* C37: a navigation whose page load fails leaves current_url and the element
\* cache as they were: current_url is the URL of the last page that loaded.
C37_FailedLoadKeepsUrl ==
    [][(log' # log /\ Len(log') > 0 /\ log'[Len(log')].ev = "goto")
          => (current_url' = current_url /\ element_cache' = element_cache)]_vars

-----------------------------------------------------------------------------
(* window.NazareDOM.findElement: the scored scan of the whole document.
   static/dom-utils.js, which setup_page injects, is not among the sources;
   the scan is written from its description.  Scores are in tenths. *)

\* the number of elements of the documents scanned
MaxElements == 2

\* the score an element must exceed to be accepted: 0.5
acceptance_threshold == 5

\* what the description's match against the text content adds: 1.0 exact, 0.5 partial
text_weight == [none |-> 0, partial |-> 5, exact |-> 10]

\* what its match against id, name, placeholder, aria-label, title, alt adds:
\* 0.8 exact, 0.3 partial
attribute_weight == [none |-> 0, partial |-> 3, exact |-> 8]

\* an element as the scan sees it; bonus is what its tag and its visibility
\* add together, amounts the description leaves open
ScanElements == [text : {"none", "partial", "exact"},
                 attribute : {"none", "partial", "exact"},
                 bonus : 0..2]

Documents == UNION { [1..n -> ScanElements] : n \in 0..MaxElements }

score(e) == text_weight[e.text] + attribute_weight[e.attribute] + e.bonus

\* the first element, in document order, that no other outscores; 0 in an
\* empty document
best_match(doc) ==
    IF doc = <<>> THEN 0
    ELSE CHOOSE k \in DOMAIN doc :
            /\ \A j \in DOMAIN doc : score(doc[j]) <= score(doc[k])
            /\ \A j \in 1..(k - 1) : score(doc[j]) < score(doc[k])

\* scored_scan accepting a best score equal to the threshold
scored_scan_AtLeast(doc) ==
    LET k == best_match(doc)
    IN  IF k # 0 /\ score(doc[k]) >= acceptance_threshold THEN k ELSE 0

\* the element the scan returns, as its position in the document; 0: not found
scored_scan(doc) ==
    LET k == best_match(doc)
    IN  IF k # 0 /\ score(doc[k]) > acceptance_threshold THEN k ELSE 0

\* the page evaluates NazareDOM.findElement on its document
ScanDocument ==
    /\ pc = "page"
    /\ element' = scored_scan(page_state)
    /\ pc' = "scanned"
    /\ UNCHANGED <<ncmd, page_state, response, action_plan, i, initial_navigation_done,
                   current_url, exc, result, outcome, log>>
    /\ UNCHANGED health
    /\ UNCHANGED storage
    /\ UNCHANGED element_cache

InitScan ==
    /\ pc = "page"
    /\ ncmd = 1
    /\ page_state \in Documents
    /\ response = NoResponse
    /\ action_plan = NoPlan
    /\ i = 0
    /\ initial_navigation_done = FALSE
    /\ element = 0
    /\ current_url = <<>>
    /\ exc = <<>>
    /\ result = NoValue
    /\ outcome = "running"
    /\ log = <<>>
    /\ is_healthy = TRUE
    /\ last_health_check = 0
    /\ monitors = <<Sleeping>>
    /\ element_cache = EmptyDict
    /\ cookie_files = EmptyDict
    /\ cache_files = EmptyDict
    /\ now = 0
    /\ context_cookies = {}

NextScan == ScanDocument

SpecScan == InitScan /\ [][NextScan]_vars

\* C31: the scan returns a maximum-scoring element when that score is
\* strictly greater than 0.5, and reports not found when the best score is at
\* most 0.5, even if one element alone has it.
C31_AcceptAboveThreshold ==
    pc = "scanned" =>
        IF \E k \in DOMAIN page_state : score(page_state[k]) > acceptance_threshold
        THEN /\ element \in DOMAIN page_state
             /\ \A j \in DOMAIN page_state :
                    score(page_state[j]) <= score(page_state[element])
        ELSE element = 0

\* one element alone has the best score, which is exactly 0.5, and the scan
\* reported not found
C31_Witness ==
    /\ pc = "scanned"
    /\ element = 0
    /\ \E k \in DOMAIN page_state :
         /\ score(page_state[k]) = acceptance_threshold
         /\ \A j \in DOMAIN page_state \ {k} : score(page_state[j]) < acceptance_threshold

-----------------------------------------------------------------------------
(* CookieManager: save_cookies and load_cookies on the cookie files.
   Time is in days. *)

\* the clock is followed until MaxAge units past the time to live
MaxAge == 1

\* self.max_age_days = 30
max_age_days == 30

CookieUrls == { <<"https://", "ft.com">>, <<"https://", "a.com">> }

\* urlparse(url).netloc
netloc(url) == url[2]

\* the FTConsent, cookieConsent and accept_cookies cookies of domain .ft.com
ConsentCookies == { [name |-> n, domain |-> "ft.com"] :
                      n \in {"FTConsent", "cookieConsent", "accept_cookies"} }

\* context.cookies([url])
cookies_of(ctx, url) == { c \in ctx : c.domain = netloc(url) }

CookieOutcomes == {"ok", "context_raises", "read_raises"}

\* save_cookies(context, url) at time t: the files afterwards.  An exception
\* of context.cookies is logged and nothing is written.
save_cookies(files, ctx, url, t, how) ==
    LET domain == netloc(url)
        cookies == cookies_of(ctx, url)
                     \cup (IF In("ft.com", <<domain>>) THEN ConsentCookies ELSE {})
        cookie_data == [timestamp |-> t, cookies |-> cookies]
    IN  IF how = "context_raises" THEN files
        ELSE [d \in DOMAIN files \cup {domain} |->
                 IF d = domain THEN cookie_data ELSE files[d]]

\* load_cookies(context, url) at time t: which branch was taken, what was
\* returned, the cookies given to context.add_cookies and the files afterwards
load_cookies(files, url, t, how) ==
    LET domain == netloc(url)
        nothing(kind) == [kind |-> kind, returned |-> FALSE, added |-> {}, files |-> files]
    IN  IF domain \notin DOMAIN files
        THEN IF In("ft.com", <<domain>>)
             THEN IF how = "context_raises" THEN nothing("absent")
                  ELSE [kind |-> "absent", returned |-> TRUE, added |-> ConsentCookies,
                        files |-> files]
             ELSE nothing("absent")
        ELSE IF how = "read_raises" THEN nothing("unreadable")
        ELSE IF t - files[domain].timestamp > max_age_days
             THEN [kind |-> "expired", returned |-> FALSE, added |-> {},
                   files |-> [d \in DOMAIN files \ {domain} |-> files[d]]]
        ELSE IF how = "context_raises" THEN nothing("fresh")
        ELSE [kind |-> "fresh", returned |-> TRUE, added |-> files[domain].cookies,
              files |-> files]

CookiesIdle ==
    /\ pc = "cookies"
    /\ UNCHANGED <<pc, ncmd, page_state, response, action_plan, initial_navigation_done,
                   element, current_url, exc, outcome, log>>
    /\ UNCHANGED health
    /\ UNCHANGED <<element_cache, cache_files>>

\* a site visited sets a cookie of its own
SiteSetsCookie(url) ==
    /\ CookiesIdle
    /\ context_cookies' = context_cookies \cup {[name |-> "sid", domain |-> netloc(url)]}
    /\ context_cookies' # context_cookies
    /\ UNCHANGED <<i, result, cookie_files, now>>

\* await self.cookie_manager.save_cookies(self.context, url)
SaveCookies(url) ==
    /\ CookiesIdle
    /\ i < MaxCalls
    /\ \E how \in {"ok", "context_raises"} :
         /\ cookie_files' = save_cookies(cookie_files, context_cookies, url, now, how)
         /\ result' = [op |-> "save_cookies", url |-> url, how |-> how]
    /\ i' = i + 1
    /\ UNCHANGED <<now, context_cookies>>

\* await self.cookie_manager.load_cookies(self.context, url)
LoadCookies(url) ==
    /\ CookiesIdle
    /\ i < MaxCalls
    /\ \E how \in CookieOutcomes :
         LET r == load_cookies(cookie_files, url, now, how)
         IN  /\ cookie_files' = r.files
             /\ context_cookies' = context_cookies \cup r.added
             /\ result' = [op |-> "load_cookies", url |-> url, how |-> how,
                           kind |-> r.kind, returned |-> r.returned, added |-> r.added,
                           before |-> cookie_files]
    /\ i' = i + 1
    /\ UNCHANGED now

\* clear_expired_cookies() at time t: the files that are left
clear_expired_cookies(files, t) ==
    LET kept == { d \in DOMAIN files : ~(t - files[d].timestamp > max_age_days) }
    IN  [d \in kept |-> files[d]]

\* start() of a later session: self.cookie_manager.clear_expired_cookies()
ClearExpiredCookies ==
    /\ CookiesIdle
    /\ cookie_files' = clear_expired_cookies(cookie_files, now)
    /\ cookie_files' # cookie_files
    /\ result' = [op |-> "clear_expired_cookies"]
    /\ UNCHANGED <<i, now, context_cookies>>

\* days pass: one at a time near the record's writing and near its expiry,
\* max_age_days at once in between
DaysPass ==
    /\ CookiesIdle
    /\ \E d \in {1, max_age_days} :
         /\ now + d <= max_age_days + MaxAge
         /\ d = 1 => now % max_age_days < MaxAge
         /\ now' = now + d
    /\ UNCHANGED <<i, result, cookie_files, context_cookies>>

InitCookies ==
    /\ pc = "cookies"
    /\ ncmd = 1
    /\ page_state = "Current URL"
    /\ response = NoResponse
    /\ action_plan = NoPlan
    /\ i = 0
    /\ initial_navigation_done = FALSE
    /\ element = "unset"
    /\ current_url = <<>>
    /\ exc = <<>>
    /\ result = [op |-> "none"]
    /\ outcome = "running"
    /\ log = <<>>
    /\ is_healthy = TRUE
    /\ last_health_check = 0
    /\ monitors = <<Sleeping>>
    /\ element_cache = EmptyDict
    /\ cookie_files = EmptyDict
    /\ cache_files = EmptyDict
    /\ now = 0
    /\ context_cookies = {}

NextCookies ==
    \/ \E url \in CookieUrls : SiteSetsCookie(url)
    \/ \E url \in CookieUrls : SaveCookies(url)
    \/ \E url \in CookieUrls : LoadCookies(url)
    \/ ClearExpiredCookies
    \/ DaysPass

SpecCookies == InitCookies /\ [][NextCookies]_vars

\* what load_cookies would have done had there been no file for the domain
AsIfAbsent ==
    load_cookies([d \in DOMAIN result.before \ {netloc(result.url)} |-> result.before[d]],
                 result.url, now, result.how)

\* C32: a load that finds a cookie record older than the TTL returns what it
\* returns, and adds to the browser context what it adds, when the domain has
\* no record, and removes the record; a record not older than the TTL is
\* loaded and kept.
C32_ExpiredLikeAbsent ==
    (result.op = "load_cookies" /\ result.how = "ok") =>
        /\ result.kind = "expired" =>
              /\ result.returned = AsIfAbsent.returned
              /\ result.added = AsIfAbsent.added
              /\ netloc(result.url) \notin DOMAIN cookie_files
        /\ result.kind = "fresh" =>
              /\ result.returned
              /\ result.added = result.before[netloc(result.url)].cookies
              /\ cookie_files = result.before

-----------------------------------------------------------------------------
(* ResponseCache: get and set on the cache files.  Time is in minutes; a
   file is named by the SHA-256 of its prompt, which stands for the prompt. *)

\* ttl_minutes: int = 60
ttl_minutes == 60

Prompts == {"p1", "p2"}
Completions == {"r1", "r2"}

\* what the file system does during a set and during a get
SetOutcomes == {"ok", "open_raises", "write_raises"}
GetOutcomes == {"ok", "read_raises", "remove_raises"}

\* the file a write that failed after aiofiles.open(path, 'w') leaves: truncated
Truncated == [timestamp |-> 0, response |-> "None", intact |-> FALSE]

Without(files, prompt) == [q \in DOMAIN files \ {prompt} |-> files[q]]

\* the try block of ResponseCache.set at time t
cache_set_body(files, prompt, r, t, how) ==
    LET data == [timestamp |-> t, response |-> r, intact |-> TRUE]
        with(d) == [q \in DOMAIN files \cup {prompt} |-> IF q = prompt THEN d ELSE files[q]]
    IN  CASE how = "open_raises" -> [raised |-> TRUE, value |-> "None", files |-> files]
          [] how = "write_raises" ->
               [raised |-> TRUE, value |-> "None", files |-> with(Truncated)]
          [] OTHER -> [raised |-> FALSE, value |-> "None", files |-> with(data)]

\* the try block of ResponseCache.get at time t, an entry of age ttl expiring
cache_get_body_AtTtl(files, prompt, t, how) ==
    IF prompt \notin DOMAIN files
    THEN [raised |-> FALSE, value |-> "None", files |-> files]
    ELSE IF how = "read_raises" \/ ~files[prompt].intact
    THEN [raised |-> TRUE, value |-> "None", files |-> files]
    ELSE IF t - files[prompt].timestamp >= ttl_minutes
    THEN IF how = "remove_raises"
         THEN [raised |-> TRUE, value |-> "None", files |-> files]
         ELSE [raised |-> FALSE, value |-> "None", files |-> Without(files, prompt)]
    ELSE [raised |-> FALSE, value |-> files[prompt].response, files |-> files]

\* the try block of ResponseCache.get at time t
cache_get_body(files, prompt, t, how) ==
    IF prompt \notin DOMAIN files
    THEN [raised |-> FALSE, value |-> "None", files |-> files]
    ELSE IF how = "read_raises" \/ ~files[prompt].intact
    THEN [raised |-> TRUE, value |-> "None", files |-> files]
    ELSE IF t - files[prompt].timestamp > ttl_minutes
    THEN IF how = "remove_raises"
         THEN [raised |-> TRUE, value |-> "None", files |-> files]
         ELSE [raised |-> FALSE, value |-> "None", files |-> Without(files, prompt)]
    ELSE [raised |-> FALSE, value |-> files[prompt].response, files |-> files]

\* try: body / except Exception: logger.warning(...); return None
Guarded(run) ==
    [raised |-> FALSE, value |-> IF run.raised THEN "None" ELSE run.value, files |-> run.files]

CacheIdle ==
    /\ pc = "cache"
    /\ UNCHANGED <<pc, ncmd, page_state, response, action_plan, initial_navigation_done,
                   element, current_url, exc, outcome>>
    /\ UNCHANGED health
    /\ UNCHANGED <<element_cache, cookie_files, context_cookies>>

\* the call leaves what it did in the log and in `result`
CacheCall(run, op, prompt, r, how) ==
    /\ cache_files' = run.files
    /\ result' = [op |-> op, prompt |-> prompt, raised |-> run.raised, before |-> cache_files]
    /\ log' = Append(log, Ev(op, i + 1, [prompt |-> prompt, response |-> r, how |-> how,
                                         at |-> now, value |-> run.value]))
    /\ i' = i + 1
    /\ UNCHANGED now

\* await self.cache.set(prompt, r)
CacheSet(prompt) ==
    /\ CacheIdle
    /\ i < MaxCalls
    /\ \E r \in Completions, how \in SetOutcomes :
         CacheCall(Guarded(cache_set_body(cache_files, prompt, r, now, how)),
                   "set", prompt, r, how)

\* await self.cache.get(prompt)
CacheGet(prompt) ==
    /\ CacheIdle
    /\ i < MaxCalls
    /\ \E how \in GetOutcomes :
         CacheCall(Guarded(cache_get_body(cache_files, prompt, now, how)),
                   "get", prompt, "None", how)

\* minutes pass: one at a time near the entry's writing and near its expiry,
\* ttl_minutes at once in between
MinutesPass ==
    /\ CacheIdle
    /\ \E d \in {1, ttl_minutes} :
         /\ now + d <= ttl_minutes + MaxAge
         /\ d = 1 => now % ttl_minutes < MaxAge
         /\ now' = now + d
    /\ UNCHANGED <<i, result, log, cache_files>>

InitCache ==
    /\ pc = "cache"
    /\ ncmd = 1
    /\ page_state = "Current URL"
    /\ response = NoResponse
    /\ action_plan = NoPlan
    /\ i = 0
    /\ initial_navigation_done = FALSE
    /\ element = "unset"
    /\ current_url = <<>>
    /\ exc = <<>>
    /\ result = [op |-> "none", prompt |-> "none", raised |-> FALSE, before |-> EmptyDict]
    /\ outcome = "running"
    /\ log = <<>>
    /\ is_healthy = TRUE
    /\ last_health_check = 0
    /\ monitors = <<Sleeping>>
    /\ element_cache = EmptyDict
    /\ cookie_files = EmptyDict
    /\ cache_files = EmptyDict
    /\ now = 0
    /\ context_cookies = {}

NextCache ==
    \/ \E prompt \in Prompts : CacheSet(prompt)
    \/ \E prompt \in Prompts : CacheGet(prompt)
    \/ MinutesPass

SpecCache == InitCache /\ [][NextCache]_vars

\* the sets of log[q]'s prompt made before log[q]
SetsBefore(q) ==
    { k \in 1..(q - 1) : log[k].ev = "set" /\ log[k].arg.prompt = log[q].arg.prompt }

LastSet(q) == CHOOSE k \in SetsBefore(q) : \A j \in SetsBefore(q) : j <= k

\* the entries of the prompts the last call was not about are as they were
OthersKept ==
    \A q \in Prompts \ {result.prompt} :
        /\ q \in DOMAIN cache_files <=> q \in DOMAIN result.before
        /\ q \in DOMAIN cache_files => cache_files[q] = result.before[q]

-----------------------------------------------------------------------------
(* LLMController._get_completion under @tenacity.retry, called from a
   method under @with_llm_error_handling.  page_state holds the prompt, i the
   attempt number, ncmd the requests made; the log is that of the request. *)

\* _get_completion retrying once more than tenacity.stop_after_attempt(3) allows
completion_stop_after_attempt_OneMore == stop_after_attempt + 1

\* stop=tenacity.stop_after_attempt(3)
completion_stop_after_attempt == 3

\* what client.chat.completions.create does: a response with content, a
\* response without choices, a response with empty content, an exception
ApiOutcomes == [kind : {"content"}, content : Completions]
                 \cup [kind : {"no_choices", "empty_content", "raises"}, content : {"None"}]

\* LLMAPIError("Failed to get valid response from LLM API after retries")
RetriesExhausted == <<"Failed to get valid response from LLM API after retries">>

CompletionIdle ==
    /\ UNCHANGED <<response, action_plan, initial_navigation_done, element, current_url>>
    /\ UNCHANGED health
    /\ UNCHANGED <<element_cache, cookie_files, context_cookies, now>>

\* a method of the controller awaits self._get_completion(prompt)
StartCompletion ==
    /\ pc = "llm_idle"
    /\ ncmd < MaxCalls
    /\ ncmd' = ncmd + 1
    /\ page_state' \in Prompts
    /\ i' = 1
    /\ log' = <<>>
    /\ pc' = "llm_attempt"
    /\ outcome' = "running"
    /\ exc' = <<>>
    /\ result' = "None"
    /\ UNCHANGED cache_files
    /\ CompletionIdle

\* one attempt of _get_completion: the cache is read; on a miss the API is
\* called and a response with content is cached and returned; anything else
\* is an LLMAPIError, after which tenacity waits and calls again, or, at the
\* last attempt, raises the RetryError that the caller's decorator reports
CompletionAttempt ==
    /\ pc = "llm_attempt"
    /\ \E gethow \in {"ok", "read_raises"}, api \in ApiOutcomes, sethow \in {"ok", "write_raises"} :
         LET cached == Guarded(cache_get_body(cache_files, page_state, now, gethow))
             stored == Guarded(cache_set_body(cached.files, page_state, api.content, now, sethow))
             called == Append(log, Ev("api_call", i, api))
         IN  IF cached.value # "None"
             THEN /\ log' = Append(log, Ev("cache_hit", i, cached.value))
                  /\ cache_files' = cached.files
                  /\ result' = cached.value
                  /\ pc' = "llm_idle" /\ outcome' = "returned"
                  /\ UNCHANGED <<i, exc>>
             ELSE IF api.kind = "content"
             THEN /\ log' = Append(called, Ev("cache_set", i, api.content))
                  /\ cache_files' = stored.files
                  /\ result' = api.content
                  /\ pc' = "llm_idle" /\ outcome' = "returned"
                  /\ UNCHANGED <<i, exc>>
             ELSE IF i < completion_stop_after_attempt
             THEN /\ log' = called
                  /\ cache_files' = cached.files
                  /\ i' = i + 1
                  /\ UNCHANGED <<pc, outcome, exc, result>>
             ELSE /\ log' = called
                  /\ cache_files' = cached.files
                  /\ exc' = RetriesExhausted
                  /\ pc' = "llm_idle" /\ outcome' = "raised"
                  /\ UNCHANGED <<i, result>>
    /\ UNCHANGED <<ncmd, page_state>>
    /\ CompletionIdle

InitLLM ==
    /\ pc = "llm_idle"
    /\ ncmd = 0
    /\ page_state = "p1"
    /\ response = NoResponse
    /\ action_plan = NoPlan
    /\ i = 0
    /\ initial_navigation_done = FALSE
    /\ element = "unset"
    /\ current_url = <<>>
    /\ exc = <<>>
    /\ result = "None"
    /\ outcome = "running"
    /\ log = <<>>
    /\ is_healthy = TRUE
    /\ last_health_check = 0
    /\ monitors = <<Sleeping>>
    /\ element_cache = EmptyDict
    /\ cookie_files = EmptyDict
    /\ cache_files = EmptyDict
    /\ now = 0
    /\ context_cookies = {}

NextLLM == StartCompletion \/ CompletionAttempt

SpecLLM == InitLLM /\ [][NextLLM]_vars

ApiCalls == { q \in DOMAIN log : log[q].ev = "api_call" }

\* C38: one completion request calls the API at most 3 times; an attempt
\* that finds the prompt in the cache calls nothing and ends the request; a
\* failed call is followed by another attempt until the third, after which
\* the request ends with an error; and what is written to the cache is the
\* non-empty content of a call that succeeded.
C38_BoundedRetries ==
    /\ Cardinality(ApiCalls) <= 3
    /\ \A q \in DOMAIN log :
         /\ log[q].ev = "cache_hit" =>
               /\ q = Len(log) /\ pc = "llm_idle" /\ outcome = "returned"
               /\ \A k \in ApiCalls : log[k].step < log[q].step
               /\ log[q].step = 1 => ApiCalls = {}
         /\ (log[q].ev = "api_call" /\ log[q].arg.kind # "content") =>
               IF log[q].step < 3
               THEN IF q = Len(log) THEN pc = "llm_attempt" /\ i = log[q].step + 1
                    ELSE log[q + 1].step = log[q].step + 1
               ELSE /\ q = Len(log)
                    /\ pc = "llm_idle" /\ outcome = "raised" /\ exc = RetriesExhausted
         /\ log[q].ev = "cache_set" =>
               /\ q > 1
               /\ log[q - 1].ev = "api_call" /\ log[q - 1].arg.kind = "content"
               /\ log[q].arg = log[q - 1].arg.content
               /\ log[q].arg \in Completions
    /\ \A prompt \in DOMAIN cache_files :
         cache_files[prompt].intact => cache_files[prompt].response \in Completions

\* a request whose three API calls all failed ended with the error, and
\* nothing was cached
C38_Witness ==
    /\ Cardinality(ApiCalls) = 3
    /\ \A q \in ApiCalls : log[q].arg.kind # "content"
    /\ outcome = "raised"
    /\ cache_files = EmptyDict

====
